---- MODULE Spec2Model ----
(***************************************************************************)
(* A model of subsystems of the Mononoke server:                           *)
(*   - the sharded, chunked SQL blob store (blobstore/sqlblob/src/store.rs)*)
(*   - generation-number BFS reachability (reachabilityindex/genbfs)       *)
(*   - the cache fill of EntryWithSizeAndContentHash (apiserver model.rs)  *)
(*   - the validating revset stream (revset/src/validation.rs)             *)
(*   - upload_blobs of the bundle resolver (bundle2-resolver)              *)
(*   - the wire-protocol commands unbundle, between, lookup, known and     *)
(*     knownnodes (repo_client/src/client/mod.rs)                          *)
(* Each subsystem has its own specification over its own variables; the    *)
(* variables of the other subsystems stay at their initial values.         *)
(***************************************************************************)
EXTENDS Integers, Sequences, FiniteSets, TLC

VARIABLES
    \* ---- blob store ----
    repo_id,      \* DataSqlStore.repo_id / ChunkSqlStore.repo_id
    shard_num,    \* DataSqlStore.shard_num / ChunkSqlStore.shard_num
    hash,         \* the XxHash32 (seed 0) digest of each byte stream hashed
    master,       \* master database of every shard: its data and chunk tables
    replica,      \* replica database of every shard (lags behind the master)
    wr,           \* the writer: one put in flight at a time
    rd,           \* the reader: one get / is_present in flight at a time
    firstPut,     \* history: value of the first completed put of each key
    lastPut,      \* history: value of the latest completed put of each key
    \* ---- reachability ----
    cs_parents,   \* the commit DAG behind the ChangesetFetcher: parents of each changeset
    broken,       \* the fetches of the ChangesetFetcher that fail
    gens,         \* the generation number stored for each changeset
    bfs,          \* the query_reachability call in flight
    \* ---- entry cache ----
    content,      \* the content behind each entry hash
    cache,        \* the LruCachePool: cache key -> cached entry
    calls,        \* the materialize_future call of each caller
    invoked,      \* history: per cache key, fills started by the calls now in flight
    delivered,    \* history: per cache key, results handed to overlapping calls
    via,          \* history: how the call of each caller is being served
    \* ---- revset validation ----
    vns,          \* the ValidateNodeStream: last_generation, seen_hashes, last poll result
    emitted,      \* history: the (hash, generation) items the stream has emitted
    wrapped,      \* history: what each poll of the wrapped stream answered
    mock,         \* the mock cachelib handler and the calls made on it
    \* ---- repository client ----
    changesets,   \* the changesets of the repository and the first parent of each
    bookmarks,    \* the bookmarks of the repository and the changeset each points to
    phases,       \* the changesets whose phase is Public
    blobrepo,     \* the node hashes of the blobs stored in the repository
    lock,         \* what fetching the read-only status of the repository gives
    up,           \* the upload_blobs call in flight
    unb,          \* the unbundle command in flight
    cmd,          \* the read command in flight: between, lookup, known or knownnodes
    \* ---- wire protocol sessions ----
    pull,         \* a client's pull: hello, listkeys, discovery, getbundle
    run,          \* a command under its timeout
    gtp,          \* the gettreepack command in flight
    gf,           \* the getfiles command in flight
    gp,           \* the getpackv1 command in flight
    so            \* the stream_out_shallow command in flight

storeVars == <<repo_id, shard_num, hash, master, replica, wr, rd, firstPut, lastPut>>

bfsVars == <<cs_parents, broken, gens, bfs>>

cacheVars == <<content, cache, calls, invoked, delivered, via>>

validateVars == <<vns, emitted, wrapped>>

clientVars == <<changesets, bookmarks, phases, blobrepo, lock, up, unb, cmd>>

wireVars == <<pull, run, gtp, gf, gp, so>>

cachelibVars == <<mock>>

vars == <<storeVars, bfsVars, cacheVars, validateVars, clientVars, wireVars, cachelibVars>>

\* what the actions of one subsystem leave alone: the other subsystems
nonStoreVars == <<bfsVars, cacheVars, validateVars, clientVars, wireVars, cachelibVars>>

nonBfsVars == <<storeVars, cacheVars, validateVars, clientVars, wireVars, cachelibVars>>

nonCacheVars == <<storeVars, bfsVars, validateVars, clientVars, wireVars, cachelibVars>>

nonValidateVars == <<storeVars, bfsVars, cacheVars, clientVars, wireVars, cachelibVars>>

nonClientVars == <<storeVars, bfsVars, cacheVars, validateVars, wireVars, cachelibVars>>

\* the repository and the stores, which a wire protocol session leaves alone
nonWireVars == <<storeVars, bfsVars, cacheVars, validateVars, cachelibVars>>

nonCachelibVars == <<storeVars, bfsVars, cacheVars, validateVars, clientVars, wireVars>>

(***************************************************************************)
(* Bounds of the blob store model.                                         *)
(***************************************************************************)
MaxLen == 2          \* longest blob value, in bytes
ChunkSize == 1       \* the chunk threshold and chunk size, in bytes
MaxShards == 2       \* largest shard count a store is constructed with

Bytes == {1, 2}
Keys == {"k1"}
RepoIds == {0}

RECURSIVE SeqsUpTo(_, _)
SeqsUpTo(S, n) ==
    IF n = 0 THEN {<<>>}
    ELSE LET shorter == SeqsUpTo(S, n - 1)
         IN  shorter \cup {Append(s, b) : s \in {t \in shorter : Len(t) = n - 1}, b \in S}

\* the blob values written: non-empty, and no byte equal to the one before it
Values ==
    {v \in SeqsUpTo(Bytes, MaxLen) :
        Len(v) > 0 /\ \A i \in 1 .. (Len(v) - 1) : v[i] # v[i + 1]}

(***************************************************************************)
(* Numbers.  usize is 64 bits wide and i32 is 32 bits wide; a usize is     *)
(* held as [hi, lo] with value hi * 2^31 + lo and 0 <= lo < 2^31, so that  *)
(* the cast to i32 can be computed on its low 32 bits.                     *)
(***************************************************************************)
I32Max == 2147483647

USize(hi, lo) == [hi |-> hi, lo |-> lo]

USizeOfNat(n) == USize(0, n)

\* `x as i32` for x: usize: the low 32 bits, read as two's complement
AsI32(u) == IF u.hi % 2 = 1 THEN (u.lo - I32Max) - 1 ELSE u.lo

NoUSize == [some |-> FALSE, val |-> USize(0, 0)]

SomeUSize(u) == [some |-> TRUE, val |-> u]

\* crate::i32_to_non_zero_usize: None unless the count is a positive integer
I32ToNonZeroUsize(i) == IF i <= 0 THEN NoUSize ELSE SomeUSize(USizeOfNat(i))

(***************************************************************************)
(* The Thrift compact protocol framing of the union                        *)
(*     union InChunk { 1: i32 num_of_chunks }                              *)
(* A field is a header byte (id delta * 16 + type), then its payload; an   *)
(* i32 payload is a zigzag varint; the struct ends with a stop byte 0.     *)
(***************************************************************************)
TStop == 0
TBoolTrue == 1
TBoolFalse == 2
TByte == 3
TI16 == 4
TI32 == 5
TI64 == 6

RECURSIVE Varint(_)
Varint(m) == IF m < 128 THEN <<m>> ELSE <<(m % 128) + 128>> \o Varint(m \div 128)

\* the varint of zigzag(i) = (i << 1) ^ (i >> 31), computed without leaving 32 bits
ZigZagVarint(i) ==
    LET sign == IF i < 0 THEN 1 ELSE 0
        mag  == IF i < 0 THEN -(i + 1) ELSE i
        low  == (mag % 64) * 2 + sign
        rest == mag \div 64
    IN  IF rest = 0 THEN <<low>> ELSE <<low + 128>> \o Varint(rest)

\* compact_protocol::serialize(&InChunk::num_of_chunks(i))
Serialize(i) == <<1 * 16 + TI32>> \o ZigZagVarint(i) \o <<TStop>>

\* the groups of a varint starting at pos: [ok, groups, next]
RECURSIVE VarintGroups(_, _)
VarintGroups(b, pos) ==
    IF pos > Len(b) THEN [ok |-> FALSE, groups |-> <<>>, next |-> pos]
    ELSE IF b[pos] < 128 THEN [ok |-> TRUE, groups |-> <<b[pos]>>, next |-> pos + 1]
    ELSE LET more == VarintGroups(b, pos + 1)
         IN  [ok |-> more.ok, groups |-> <<b[pos] % 128>> \o more.groups, next |-> more.next]

\* the i32 a zigzag varint decodes to (bits above the 32nd are dropped)
RECURSIVE MagOf(_, _, _)
MagOf(groups, j, mult) ==
    IF j > Len(groups) \/ j > 5 THEN 0
    ELSE IF j = 5 THEN (groups[j] % 16) * mult
    ELSE groups[j] * mult + MagOf(groups, j + 1, mult * 128)

ZigZagI32(groups) ==
    LET sign == groups[1] % 2
        mag  == (groups[1] \div 2) + MagOf(groups, 2, 64)
    IN  IF sign = 1 THEN -mag - 1 ELSE mag

\* result of deserializing an InChunk header
DeErr == [kind |-> "Err", id |-> 0, n |-> 0]

DeUnknownField(id) == [kind |-> "UnknownField", id |-> id, n |-> 0]

DeNumOfChunks(n) == [kind |-> "num_of_chunks", id |-> 1, n |-> n]

\* the union reader: fields are read until the stop byte; field 1 of type i32
\* is num_of_chunks; any other field is skipped; a field after the recognised
\* one, or the end of the input before the stop byte, is an error.
RECURSIVE ReadUnion(_, _, _, _)
ReadUnion(b, pos, lastId, alt) ==
    IF pos > Len(b) THEN DeErr
    ELSE IF b[pos] = TStop THEN alt
    ELSE LET fty   == b[pos] % 16
             delta == b[pos] \div 16
             idv   == IF delta = 0 THEN VarintGroups(b, pos + 1)
                      ELSE [ok |-> TRUE, groups |-> <<>>, next |-> pos + 1]
             fid   == IF delta = 0 /\ idv.ok THEN ZigZagI32(idv.groups) ELSE lastId + delta
             once  == alt.kind = "num_of_chunks"
         IN  IF ~idv.ok \/ once THEN DeErr
             ELSE IF fty \in {TBoolTrue, TBoolFalse}
                  THEN ReadUnion(b, idv.next, fid, alt)
             ELSE IF fty = TByte
                  THEN ReadUnion(b, idv.next + 1, fid, alt)
             ELSE IF fty \in {TI16, TI32, TI64}
                  THEN LET v == VarintGroups(b, idv.next)
                       IN  IF ~v.ok THEN DeErr
                           ELSE IF fty = TI32 /\ fid = 1
                                THEN ReadUnion(b, v.next, fid, DeNumOfChunks(ZigZagI32(v.groups)))
                           ELSE ReadUnion(b, v.next, fid, alt)
             ELSE DeErr

\* compact_protocol::deserialize::<InChunk>(value); a union with no field set
\* is InChunk::default(), the unknown field -1
Deserialize(b) == ReadUnion(b, 1, 0, DeUnknownField(-1))

(***************************************************************************)
(* The SQL tables.  A database holds the rows of table data, with columns  *)
(* (repo_id, id, type, value) and primary key (repo_id, id), and of table  *)
(* chunk, with columns (repo_id, id, chunk_id, value) and primary key      *)
(* (repo_id, id, chunk_id).  A write query answers [db, err]: the database *)
(* after it, and whether the statement failed.                             *)
(***************************************************************************)
DataTypeData == 1
DataTypeInChunk == 2

EmptyDb == [data |-> {}, chunk |-> {}]

DataRow(rid, id, dtype, value) == [repo_id |-> rid, id |-> id, type |-> dtype, value |-> value]

ChunkRow(rid, id, chunk_id, value) ==
    [repo_id |-> rid, id |-> id, chunk_id |-> chunk_id, value |-> value]

SameDataKey(r, row) == r.repo_id = row.repo_id /\ r.id = row.id

SameChunkKey(r, row) ==
    r.repo_id = row.repo_id /\ r.id = row.id /\ r.chunk_id = row.chunk_id

\* REPLACE INTO data: a row whose primary key is taken is overwritten
InsertDataReplace(db, row) ==
    [db |-> [db EXCEPT !.data = {r \in @ : ~SameDataKey(r, row)} \cup {row}], err |-> FALSE]

\* {insert_or_ignore} INTO data: a row whose primary key is taken is left alone
InsertData(db, row) ==
    IF \E r \in db.data : SameDataKey(r, row)
    THEN [db |-> db, err |-> FALSE]
    ELSE [db |-> [db EXCEPT !.data = @ \cup {row}], err |-> FALSE]

\* REPLACE INTO chunk
InsertChunkReplace(db, row) ==
    [db |-> [db EXCEPT !.chunk = {r \in @ : ~SameChunkKey(r, row)} \cup {row}], err |-> FALSE]

\* {insert_or_ignore} INTO chunk
InsertChunk(db, row) ==
    IF \E r \in db.chunk : SameChunkKey(r, row)
    THEN [db |-> db, err |-> FALSE]
    ELSE [db |-> [db EXCEPT !.chunk = @ \cup {row}], err |-> FALSE]

\* SELECT type, value FROM data WHERE repo_id = {repo_id} AND id = {id}
SelectData(db, rid, id) == {r \in db.data : r.repo_id = rid /\ r.id = id}

\* SELECT 1 FROM data WHERE repo_id = {repo_id} AND id = {id}
SelectIsDataPresent(db, rid, id) == {1 : r \in SelectData(db, rid, id)}

\* SELECT value FROM chunk WHERE repo_id = .. AND id = .. AND chunk_id = ..
SelectChunk(db, rid, id, chunk_id) ==
    {r \in db.chunk : r.repo_id = rid /\ r.id = id /\ r.chunk_id = chunk_id}

\* rows.into_iter().next() of a non-empty result
FirstRow(rows) == CHOOSE r \in rows : TRUE

(***************************************************************************)
(* The connections of a store: three vectors indexed 0 .. shard_num - 1.   *)
(* write_connection[i] and read_master_connection[i] reach the master of   *)
(* shard i + 1, read_connection[i] reaches its replica.                    *)
(***************************************************************************)
Conn(tier, idx) == [tier |-> tier, idx |-> idx]

WriteConnection(i) == Conn("master", i)

\* a reader wired to the master in place of the replica
ReadConnectionIsMaster(i) == Conn("master", i)

ReadConnection(i) == Conn("replica", i)

\* a reader wired to the replica in place of the master
ReadMasterConnectionIsReplica(i) == Conn("replica", i)

ReadMasterConnection(i) == Conn("master", i)

\* the database a connection reaches
Db(conn) == IF conn.tier = "master" THEN master[conn.idx] ELSE replica[conn.idx]

\* whether vec[shard_id - 1] is inside a vector of connections
InRange(shard_id) == (shard_id - 1) \in 0 .. (shard_num - 1)

(***************************************************************************)
(* DataEntry and the shard functions.                                      *)
(***************************************************************************)
EntryData(bytes) == [kind |-> "Data", bytes |-> bytes, n |-> USize(0, 0)]

EntryInChunk(n) == [kind |-> "InChunk", bytes |-> <<>>, n |-> n]

\* the byte stream DataSqlStore::shard feeds the hasher
DataHashInput(rid, key) == <<rid, key>>

\* the byte stream ChunkSqlStore::shard feeds the hasher
ChunkHashInput(rid, key, chunk_id) == <<rid, key, chunk_id>>

\* (hasher.finish() % shard_num), the + 1 forgotten
DataShardZeroBased(key) == hash[DataHashInput(repo_id, key)] % shard_num

\* DataSqlStore::shard
DataShard(key) == (hash[DataHashInput(repo_id, key)] % shard_num) + 1

\* ChunkSqlStore::shard
ChunkShard(key, chunk_id) == (hash[ChunkHashInput(repo_id, key, chunk_id)] % shard_num) + 1

(***************************************************************************)
(* Results of a read.                                                      *)
(***************************************************************************)
ResNone == [kind |-> "None", bytes |-> <<>>, n |-> USize(0, 0), present |-> FALSE]

ResData(bytes) == [kind |-> "Data", bytes |-> bytes, n |-> USize(0, 0), present |-> TRUE]

ResInChunk(n) == [kind |-> "InChunk", bytes |-> <<>>, n |-> n, present |-> TRUE]

ResBool(b) == [kind |-> "Bool", bytes |-> <<>>, n |-> USize(0, 0), present |-> b]

ResErr(msg) == [kind |-> msg, bytes |-> <<>>, n |-> USize(0, 0), present |-> FALSE]

ErrInvalidCount == "Err: Encoded number of chunks was invalid"
ErrDeserialize == "Err: Failed to deserialize InChunk data"
ErrMissingChunk == "Err: Missing chunk"
ErrPanic == "panic: index out of bounds"

Errors == {ErrInvalidCount, ErrDeserialize, ErrMissingChunk, ErrPanic}

\* a decoder that answers None for a header it cannot use
DecodeRowLenient(rows) ==
    IF rows = {} THEN ResNone
    ELSE LET row == FirstRow(rows)
         IN  IF row.type = DataTypeData THEN ResData(row.value)
             ELSE LET de == Deserialize(row.value)
                      c == I32ToNonZeroUsize(de.n)
                  IN  IF de.kind = "num_of_chunks" /\ c.some THEN ResInChunk(c.val)
                      ELSE ResNone

\* the second and_then of DataSqlStore::get: the row found, if any, as a DataEntry
DecodeRow(rows) ==
    IF rows = {} THEN ResNone
    ELSE LET row == FirstRow(rows)
         IN  IF row.type = DataTypeData THEN ResData(row.value)
             ELSE LET de == Deserialize(row.value)
                  IN  IF de.kind = "num_of_chunks"
                      THEN LET c == I32ToNonZeroUsize(de.n)
                           IN  IF c.some THEN ResInChunk(c.val) ELSE ResErr(ErrInvalidCount)
                      ELSE ResErr(ErrDeserialize)

\* a chunk reader that answers no bytes for a chunk the master does not hold
ChunkMasterResultEmpty(rows) ==
    IF rows # {} THEN ResData(FirstRow(rows).value) ELSE ResData(<<>>)

\* the and_then of ChunkSqlStore::get on the rows of the master query
ChunkMasterResult(rows) ==
    IF rows # {} THEN ResData(FirstRow(rows).value) ELSE ResErr(ErrMissingChunk)

\* the (dtype, value) DataSqlStore::put writes for an entry
RowOfEntry(key, entry) ==
    IF entry.kind = "Data"
    THEN DataRow(repo_id, key, DataTypeData, entry.bytes)
    ELSE DataRow(repo_id, key, DataTypeInChunk, Serialize(AsI32(entry.n)))

(***************************************************************************)
(* The writer: Sqlblob::put, one value at a time.  A value longer than the *)
(* chunk threshold is written as its chunk rows, then its InChunk header   *)
(* row; any other value is written as one Data row.                        *)
(***************************************************************************)
NoPut == [put |-> FALSE, v |-> <<>>, entry |-> EntryData(<<>>)]

DidPut(v, entry) == [put |-> TRUE, v |-> v, entry |-> entry]

WriterIdle ==
    [pc |-> "idle", key |-> "", value |-> <<>>, pending |-> {}, entry |-> EntryData(<<>>)]

\* n = ceil(size / chunk_size)
NumChunks(v) == (Len(v) + ChunkSize - 1) \div ChunkSize

Min(a, b) == IF a <= b THEN a ELSE b

\* value.chunks(CHUNK_SIZE).nth(i)
ChunkBytes(v, i) == SubSeq(v, i * ChunkSize + 1, Min((i + 1) * ChunkSize, Len(v)))

PutStart(k, v) ==
    /\ wr.pc = "idle"
    /\ wr' = IF Len(v) > ChunkSize
             THEN [pc |-> "chunks", key |-> k, value |-> v,
                   pending |-> 0 .. (NumChunks(v) - 1),
                   entry |-> EntryInChunk(USizeOfNat(NumChunks(v)))]
             ELSE [pc |-> "data", key |-> k, value |-> v, pending |-> {},
                   entry |-> EntryData(v)]
    /\ UNCHANGED <<repo_id, shard_num, hash, master, replica, rd, firstPut, lastPut, nonStoreVars>>

\* a caller of DataSqlStore::put hands it (key, entry) directly
RawPutStart(k, entry) ==
    /\ wr.pc = "idle"
    /\ wr' = [pc |-> "data", key |-> k, value |-> entry.bytes, pending |-> {},
              entry |-> entry]
    /\ UNCHANGED <<repo_id, shard_num, hash, master, replica, rd, firstPut, lastPut, nonStoreVars>>

\* ChunkSqlStore::put(key, chunk_id, value) for one chunk of the value in flight
PutChunk(i) ==
    /\ wr.pc = "chunks"
    /\ i \in wr.pending
    /\ LET shard_id == ChunkShard(wr.key, i)
           conn == WriteConnection(shard_id - 1)
           row == ChunkRow(repo_id, wr.key, i, ChunkBytes(wr.value, i))
           left == wr.pending \ {i}
       IN  IF ~InRange(shard_id)
           THEN wr' = [wr EXCEPT !.pc = "panic"] /\ UNCHANGED master
           ELSE LET q == InsertChunk(Db(conn), row)
                IN  /\ master' = [master EXCEPT ![conn.idx] = q.db]
                    /\ wr' = IF q.err THEN [wr EXCEPT !.pc = "failed"]
                             ELSE [wr EXCEPT !.pending = left,
                                             !.pc = IF left = {} THEN "data" ELSE "chunks"]
    /\ UNCHANGED <<repo_id, shard_num, hash, replica, rd, firstPut, lastPut, nonStoreVars>>

\* the history after the put of (key, value), stored as entry, has completed
PutCompleted(key, value, entry) ==
    /\ rd' = IF rd.key = key THEN [rd EXCEPT !.quiet = FALSE] ELSE rd
    /\ firstPut' = IF firstPut[key].put THEN firstPut
                   ELSE [firstPut EXCEPT ![key] = DidPut(value, entry)]
    /\ lastPut' = [lastPut EXCEPT ![key] = DidPut(value, entry)]

\* DataSqlStore::put(key, entry) for the value in flight, which completes its put
PutData ==
    /\ wr.pc = "data"
    /\ LET shard_id == DataShard(wr.key)
           conn == WriteConnection(shard_id - 1)
       IN  IF ~InRange(shard_id)
           THEN wr' = [wr EXCEPT !.pc = "panic"] /\ UNCHANGED <<master, rd, firstPut, lastPut>>
           ELSE LET q == InsertData(Db(conn), RowOfEntry(wr.key, wr.entry))
                IN  /\ master' = [master EXCEPT ![conn.idx] = q.db]
                    /\ IF q.err
                       THEN wr' = [wr EXCEPT !.pc = "failed"]
                            /\ UNCHANGED <<rd, firstPut, lastPut>>
                       ELSE wr' = WriterIdle /\ PutCompleted(wr.key, wr.value, wr.entry)
    /\ UNCHANGED <<repo_id, shard_num, hash, replica, nonStoreVars>>

(***************************************************************************)
(* Replication: a replica receives, one row at a time and in any order,    *)
(* the rows its master holds.                                              *)
(***************************************************************************)
Replicate(s) ==
    /\ \/ \E r \in master[s].data \ replica[s].data :
              replica' = [replica EXCEPT ![s].data = @ \cup {r}]
       \/ \E r \in master[s].chunk \ replica[s].chunk :
              replica' = [replica EXCEPT ![s].chunk = @ \cup {r}]
    /\ UNCHANGED <<repo_id, shard_num, hash, master, wr, rd, firstPut, lastPut, nonStoreVars>>

(***************************************************************************)
(* The reader: one read at a time.  op is the operation in flight:         *)
(*   "blob_get"   Sqlblob::get: DataSqlStore::get, then for InChunk(n) the *)
(*                chunks 0 .. n-1 through ChunkSqlStore::get               *)
(*   "data_get"   DataSqlStore::get                                        *)
(*   "chunk_get"  ChunkSqlStore::get                                       *)
(*   "is_present" DataSqlStore::is_present                                 *)
(* A read is suspended at each SQL query.  log lists, for the DataSqlStore *)
(* or ChunkSqlStore call in progress, the connections queried and whether  *)
(* each query found a row.  Two history flags: after, a put of the key had *)
(* completed when the read was issued; quiet, no put of the key has        *)
(* completed since it was issued.                                          *)
(***************************************************************************)
ReaderIdle ==
    [op |-> "idle", key |-> "", chunk_id |-> 0, pc |-> "idle", n |-> 0, acc |-> <<>>,
     out |-> ResNone, log |-> <<>>, after |-> FALSE, quiet |-> TRUE]

ReadOps == {"blob_get", "data_get", "chunk_get", "is_present"}

Queried(conn, rows) == [conn |-> conn, found |-> rows # {}]

ReadStart(op, k, c) ==
    /\ rd.op = "idle"
    /\ rd' = [ReaderIdle EXCEPT !.op = op, !.key = k, !.chunk_id = c,
                                !.pc = IF op = "chunk_get" THEN "chunk_replica" ELSE "replica",
                                !.after = firstPut[k].put]
    /\ UNCHANGED <<repo_id, shard_num, hash, master, replica, wr, firstPut, lastPut, nonStoreVars>>

ReadPanic == [rd EXCEPT !.pc = "done", !.out = ResErr(ErrPanic)]

\* DataSqlStore::get has resolved with res
DataFinish(res, log) ==
    IF rd.op = "blob_get" /\ res.kind = "InChunk"
    THEN [rd EXCEPT !.pc = "chunk_replica", !.n = res.n.lo, !.chunk_id = 0, !.log = <<>>]
    ELSE [rd EXCEPT !.pc = "done", !.out = res, !.log = log]

\* DataSqlStore::get, up to the result of the replica query
DataGetReplica ==
    /\ rd.op \in {"blob_get", "data_get"}
    /\ rd.pc = "replica"
    /\ LET shard_id == DataShard(rd.key)
       IN  IF ~InRange(shard_id) THEN rd' = ReadPanic
           ELSE LET conn == ReadConnection(shard_id - 1)
                    rows == SelectData(Db(conn), repo_id, rd.key)
                    log == Append(rd.log, Queried(conn, rows))
                IN  IF rows # {}
                    THEN rd' = DataFinish(DecodeRow(rows), log)
                    ELSE rd' = [rd EXCEPT !.pc = "master", !.log = log]
    /\ UNCHANGED <<repo_id, shard_num, hash, master, replica, wr, firstPut, lastPut, nonStoreVars>>

\* DataSqlStore::get, from the master query on
DataGetMaster ==
    /\ rd.op \in {"blob_get", "data_get"}
    /\ rd.pc = "master"
    /\ LET shard_id == DataShard(rd.key)
           conn == ReadMasterConnection(shard_id - 1)
           rows == SelectData(Db(conn), repo_id, rd.key)
           log == Append(rd.log, Queried(conn, rows))
       IN  rd' = DataFinish(DecodeRow(rows), log)
    /\ UNCHANGED <<repo_id, shard_num, hash, master, replica, wr, firstPut, lastPut, nonStoreVars>>

\* DataSqlStore::is_present, up to the result of the replica query
IsPresentReplica ==
    /\ rd.op = "is_present"
    /\ rd.pc = "replica"
    /\ LET shard_id == DataShard(rd.key)
       IN  IF ~InRange(shard_id) THEN rd' = ReadPanic
           ELSE LET conn == ReadConnection(shard_id - 1)
                    rows == SelectIsDataPresent(Db(conn), repo_id, rd.key)
                    log == Append(rd.log, Queried(conn, rows))
                IN  IF rows # {}
                    THEN rd' = [rd EXCEPT !.pc = "done", !.out = ResBool(TRUE), !.log = log]
                    ELSE rd' = [rd EXCEPT !.pc = "master", !.log = log]
    /\ UNCHANGED <<repo_id, shard_num, hash, master, replica, wr, firstPut, lastPut, nonStoreVars>>

\* DataSqlStore::is_present, from the master query on
IsPresentMaster ==
    /\ rd.op = "is_present"
    /\ rd.pc = "master"
    /\ LET shard_id == DataShard(rd.key)
           conn == ReadMasterConnection(shard_id - 1)
           rows == SelectIsDataPresent(Db(conn), repo_id, rd.key)
           log == Append(rd.log, Queried(conn, rows))
       IN  rd' = [rd EXCEPT !.pc = "done", !.out = ResBool(rows # {}), !.log = log]
    /\ UNCHANGED <<repo_id, shard_num, hash, master, replica, wr, firstPut, lastPut, nonStoreVars>>

\* ChunkSqlStore::get has resolved with res
ChunkFinish(res, log) ==
    IF rd.op = "chunk_get" \/ res.kind # "Data"
    THEN [rd EXCEPT !.pc = "done", !.out = res, !.log = log]
    ELSE IF rd.chunk_id + 1 = rd.n
         THEN [rd EXCEPT !.pc = "done", !.out = ResData(rd.acc \o res.bytes), !.log = log]
         ELSE [rd EXCEPT !.pc = "chunk_replica", !.acc = rd.acc \o res.bytes,
                         !.chunk_id = rd.chunk_id + 1, !.log = <<>>]

\* ChunkSqlStore::get, up to the result of the replica query
ChunkGetReplica ==
    /\ rd.op \in {"blob_get", "chunk_get"}
    /\ rd.pc = "chunk_replica"
    /\ LET shard_id == ChunkShard(rd.key, rd.chunk_id)
       IN  IF ~InRange(shard_id) THEN rd' = ReadPanic
           ELSE LET conn == ReadConnection(shard_id - 1)
                    rows == SelectChunk(Db(conn), repo_id, rd.key, rd.chunk_id)
                    log == Append(rd.log, Queried(conn, rows))
                IN  IF rows # {}
                    THEN rd' = ChunkFinish(ResData(FirstRow(rows).value), log)
                    ELSE rd' = [rd EXCEPT !.pc = "chunk_master", !.log = log]
    /\ UNCHANGED <<repo_id, shard_num, hash, master, replica, wr, firstPut, lastPut, nonStoreVars>>

\* ChunkSqlStore::get, from the master query on
ChunkGetMaster ==
    /\ rd.op \in {"blob_get", "chunk_get"}
    /\ rd.pc = "chunk_master"
    /\ LET shard_id == ChunkShard(rd.key, rd.chunk_id)
           conn == ReadMasterConnection(shard_id - 1)
           rows == SelectChunk(Db(conn), repo_id, rd.key, rd.chunk_id)
           log == Append(rd.log, Queried(conn, rows))
       IN  rd' = ChunkFinish(ChunkMasterResult(rows), log)
    /\ UNCHANGED <<repo_id, shard_num, hash, master, replica, wr, firstPut, lastPut, nonStoreVars>>

\* the caller takes the result; the reader is free for the next read
ReadReturn ==
    /\ rd.pc = "done"
    /\ rd' = ReaderIdle
    /\ UNCHANGED <<repo_id, shard_num, hash, master, replica, wr, firstPut, lastPut, nonStoreVars>>

(***************************************************************************)
(* Reachability: GenerationNumberBFS over a ChangesetFetcher.              *)
(* Changesets are 1 .. MaxNodes; the parents of a changeset are lower      *)
(* numbered, so the graph is a DAG.  A fetch of the ChangesetFetcher is    *)
(* <<"parents", cs>> or <<"generation", cs>>; the fetches in broken fail.  *)
(***************************************************************************)
MaxNodes == 4        \* number of changesets in the commit DAG
MaxParents == 2      \* a changeset has 0, 1 or 2 parents

Nodes == 1 .. MaxNodes

Graphs ==
    {g \in [Nodes -> SUBSET Nodes] :
        \A n \in Nodes : Cardinality(g[n]) <= MaxParents /\ \A p \in g[n] : p < n}

Fetches == {<<kind, n>> : kind \in {"parents", "generation"}, n \in Nodes}

RECURSIVE SetMax(_)
SetMax(S) ==
    LET x == CHOOSE y \in S : TRUE
    IN  IF S = {x} THEN x
        ELSE LET m == SetMax(S \ {x}) IN IF x > m THEN x ELSE m

\* the generation number of a changeset of a DAG: 1 for a root
RECURSIVE GenerationOf(_)
GenerationOf(cs) ==
    IF cs_parents[cs] = {} THEN 1
    ELSE 1 + SetMax({GenerationOf(p) : p \in cs_parents[cs]})

RECURSIVE AncestorsOrSelf(_)
AncestorsOrSelf(cs) == {cs} \cup UNION {AncestorsOrSelf(p) : p \in cs_parents[cs]}

FetchOk(v) == [ok |-> TRUE, val |-> v, err |-> ""]

FetchErr(e) == [ok |-> FALSE, val |-> 0, err |-> e]

\* ChangesetFetcher::get_parents
GetParents(cs) ==
    IF <<"parents", cs>> \in broken THEN FetchErr("get_parents failed")
    ELSE [ok |-> TRUE, val |-> cs_parents[cs], err |-> ""]

\* ChangesetFetcher::get_generation_number
GetGenerationNumber(cs) ==
    IF <<"generation", cs>> \in broken THEN FetchErr("get_generation_number failed")
    ELSE FetchOk(gens[cs])

ErrNodeNotFound == "ChangesetMissing"
ErrGenerationFetchFailed == "GenerationFetchFailed"
ErrParentsFetchFailed == "ParentsFetchFailed"

\* common::check_if_node_exists
CheckIfNodeExists(cs) ==
    IF GetGenerationNumber(cs).ok THEN FetchOk(0) ELSE FetchErr(ErrNodeNotFound)

\* common::fetch_generation
FetchGeneration(cs) ==
    LET g == GetGenerationNumber(cs)
    IN  IF g.ok THEN g ELSE FetchErr(ErrGenerationFetchFailed)

\* common::changesets_with_generation_numbers
ChangesetsWithGenerationNumbers(nodes) ==
    IF \E n \in nodes : ~FetchGeneration(n).ok
    THEN [ok |-> FALSE, val |-> {}, err |-> ErrGenerationFetchFailed]
    ELSE [ok |-> TRUE, val |-> {<<n, FetchGeneration(n).val>> : n \in nodes}, err |-> ""]

LayerOk(next_layer, next_seen) ==
    [ok |-> TRUE, next_layer |-> next_layer, next_seen |-> next_seen, err |-> ""]

LayerErr(e) == [ok |-> FALSE, next_layer |-> {}, next_seen |-> {}, err |-> e]

\* process_bfs_layer with the generation filter parent_gen > dst_gen
ProcessBfsLayerStrict(curr_layer, curr_seen, dst_gen) ==
    LET seen == curr_seen \cup curr_layer
    IN  IF \E n \in curr_layer : ~GetParents(n).ok THEN LayerErr(ErrParentsFetchFailed)
        ELSE LET all_parents == UNION {GetParents(n).val : n \in curr_layer}
                 pairs == ChangesetsWithGenerationNumbers(all_parents)
             IN  IF ~pairs.ok THEN LayerErr(pairs.err)
                 ELSE LayerOk({pg[1] : pg \in {x \in pairs.val :
                                  x[1] \notin seen /\ x[2] > dst_gen}}, seen)

\* process_bfs_layer that leaves out the changesets whose fetch fails
ProcessBfsLayerSkipFailed(curr_layer, curr_seen, dst_gen) ==
    LET seen == curr_seen \cup curr_layer
        all_parents == UNION {GetParents(n).val : n \in {x \in curr_layer : GetParents(x).ok}}
        fetched == {n \in all_parents : FetchGeneration(n).ok}
    IN  LayerOk({p \in fetched : p \notin seen /\ FetchGeneration(p).val >= dst_gen}, seen)

\* process_bfs_layer that keeps the changesets of a generation up to dst_gen
ProcessBfsLayerPruneYounger(curr_layer, curr_seen, dst_gen) ==
    LET seen == curr_seen \cup curr_layer
    IN  IF \E n \in curr_layer : ~GetParents(n).ok THEN LayerErr(ErrParentsFetchFailed)
        ELSE LET all_parents == UNION {GetParents(n).val : n \in curr_layer}
                 pairs == ChangesetsWithGenerationNumbers(all_parents)
             IN  IF ~pairs.ok THEN LayerErr(pairs.err)
                 ELSE LayerOk({pg[1] : pg \in {x \in pairs.val :
                                  x[1] \notin seen /\ x[2] <= dst_gen}}, seen)

\* process_bfs_layer that filters the parents against the changesets seen
\* before the current layer only
ProcessBfsLayerSeenBefore(curr_layer, curr_seen, dst_gen) ==
    LET seen == curr_seen \cup curr_layer
    IN  IF \E n \in curr_layer : ~GetParents(n).ok THEN LayerErr(ErrParentsFetchFailed)
        ELSE LET all_parents == UNION {GetParents(n).val : n \in curr_layer}
                 pairs == ChangesetsWithGenerationNumbers(all_parents)
             IN  IF ~pairs.ok THEN LayerErr(pairs.err)
                 ELSE LayerOk({pg[1] : pg \in {x \in pairs.val :
                                  x[1] \notin curr_seen /\ x[2] >= dst_gen}}, seen)

\* process_bfs_layer that does not filter out the changesets seen before
ProcessBfsLayerNoSeen(curr_layer, curr_seen, dst_gen) ==
    LET seen == curr_seen \cup curr_layer
    IN  IF \E n \in curr_layer : ~GetParents(n).ok THEN LayerErr(ErrParentsFetchFailed)
        ELSE LET all_parents == UNION {GetParents(n).val : n \in curr_layer}
                 pairs == ChangesetsWithGenerationNumbers(all_parents)
             IN  IF ~pairs.ok THEN LayerErr(pairs.err)
                 ELSE LayerOk({pg[1] : pg \in {x \in pairs.val : x[2] >= dst_gen}}, seen)

ProcessBfsLayer(curr_layer, curr_seen, dst_gen) ==
    LET seen == curr_seen \cup curr_layer
    IN  IF \E n \in curr_layer : ~GetParents(n).ok THEN LayerErr(ErrParentsFetchFailed)
        ELSE LET all_parents == UNION {GetParents(n).val : n \in curr_layer}
                 pairs == ChangesetsWithGenerationNumbers(all_parents)
             IN  IF ~pairs.ok THEN LayerErr(pairs.err)
                 ELSE LayerOk({pg[1] : pg \in {x \in pairs.val :
                                  x[1] \notin seen /\ x[2] >= dst_gen}}, seen)

BfsIdle ==
    [pc |-> "idle", src |-> 0, dst |-> 0, dst_gen |-> 0, curr_layer |-> {},
     curr_seen |-> {}, out |-> [kind |-> "None", val |-> FALSE, err |-> ""], log |-> <<>>]

BfsOk(b) == [kind |-> "Ok", val |-> b, err |-> ""]

BfsErr(e) == [kind |-> "Err", val |-> FALSE, err |-> e]

\* one call of the fetcher or of a helper, as the query issued it
Called(fn, nodes) == [fn |-> fn, nodes |-> nodes]

\* query_reachability(src, dst), up to the first future
QueryReachability(src, dst) ==
    /\ bfs.pc = "idle"
    /\ bfs' = [BfsIdle EXCEPT !.pc = "check_src", !.src = src, !.dst = dst,
                              !.curr_layer = {src}, !.curr_seen = {}]
    /\ UNCHANGED <<cs_parents, broken, gens, nonBfsVars>>

\* check_if_node_exists(src) resolves
QueryCheckSrc ==
    /\ bfs.pc = "check_src"
    /\ LET r == CheckIfNodeExists(bfs.src)
           log == Append(bfs.log, Called("check_if_node_exists", {bfs.src}))
       IN  bfs' = IF r.ok THEN [bfs EXCEPT !.pc = "fetch_dst", !.log = log]
                  ELSE [bfs EXCEPT !.pc = "done", !.out = BfsErr(r.err), !.log = log]
    /\ UNCHANGED <<cs_parents, broken, gens, nonBfsVars>>

\* fetch_generation(dst) resolves
QueryFetchDstGen ==
    /\ bfs.pc = "fetch_dst"
    /\ LET r == FetchGeneration(bfs.dst)
           log == Append(bfs.log, Called("fetch_generation", {bfs.dst}))
       IN  bfs' = IF r.ok THEN [bfs EXCEPT !.pc = "loop", !.dst_gen = r.val, !.log = log]
                  ELSE [bfs EXCEPT !.pc = "done", !.out = BfsErr(r.err), !.log = log]
    /\ UNCHANGED <<cs_parents, broken, gens, nonBfsVars>>

\* one iteration of the loop_fn of query_reachability
QueryLoop ==
    /\ bfs.pc = "loop"
    /\ IF bfs.dst \in bfs.curr_layer
       THEN bfs' = [bfs EXCEPT !.pc = "done", !.out = BfsOk(TRUE)]
       ELSE IF bfs.curr_layer = {}
       THEN bfs' = [bfs EXCEPT !.pc = "done", !.out = BfsOk(FALSE)]
       ELSE LET r == ProcessBfsLayer(bfs.curr_layer, bfs.curr_seen, bfs.dst_gen)
                log == Append(bfs.log, Called("process_bfs_layer", bfs.curr_layer))
            IN  bfs' = IF r.ok
                       THEN [bfs EXCEPT !.curr_layer = r.next_layer,
                                        !.curr_seen = r.next_seen, !.log = log]
                       ELSE [bfs EXCEPT !.pc = "done", !.out = BfsErr(r.err), !.log = log]
    /\ UNCHANGED <<cs_parents, broken, gens, nonBfsVars>>

\* the caller takes the result
QueryReturn ==
    /\ bfs.pc = "done"
    /\ bfs' = BfsIdle
    /\ UNCHANGED <<cs_parents, broken, gens, nonBfsVars>>

BfsUnused ==
    /\ cs_parents = [n \in Nodes |-> {}]
    /\ broken = {}
    /\ gens = [n \in Nodes |-> 1]
    /\ bfs = BfsIdle

(***************************************************************************)
(* The entry cache: EntryWithSizeAndContentHash::materialize_future over   *)
(* an LruCachePool.  Each caller has at most one call in flight.           *)
(***************************************************************************)
MaxCallers == 2      \* number of callers of materialize_future

Callers == 1 .. MaxCallers
Hashes == {"h1", "h2"}
Names == {"a", "b"}

\* HgEntry::get_name: no name, or the bytes of a name, which may not be UTF-8
NoName == [some |-> FALSE, utf8 |-> FALSE, text |-> ""]

Utf8Name(t) == [some |-> TRUE, utf8 |-> TRUE, text |-> t]

BadName == [some |-> TRUE, utf8 |-> FALSE, text |-> ""]

\* the entries materialized: every kind of name over h1, one named entry over h2
HgEntries ==
    [name : {NoName, BadName} \cup {Utf8Name(t) : t \in Names}, hash : {"h1"}]
        \cup {[name |-> Utf8Name("a"), hash |-> "h2"]}

\* Content: File / Tree, or the content cannot be fetched
FileContent(bytes) == [kind |-> "File", bytes |-> bytes]

TreeContent(list) == [kind |-> "Tree", bytes |-> list]

NoContent == [kind |-> "Unavailable", bytes |-> <<>>]

ContentSamples == {FileContent(<<1>>), TreeContent(<<1, 2>>), NoContent}

NoneOf == [some |-> FALSE, val |-> <<>>]

SomeOf(v) == [some |-> TRUE, val |-> v]

Sha1(bytes) == <<"sha1">> \o bytes

\* EntryWithSizeAndContentHash::get_cache_key
GetCacheKey(repoid, h) == <<repoid, ":", h>>

CacheKeys == {GetCacheKey(r, h) : r \in RepoIds, h \in Hashes}

CallOk(v) == [kind |-> "Ok", val |-> v, err |-> ""]

CallErr(e) == [kind |-> "Err", val |-> <<>>, err |-> e]

CallIdle ==
    [pc |-> "idle", entry |-> [name |-> NoName, hash |-> ""], key |-> <<>>,
     out |-> CallErr("")]

\* the future of materialize_future: the entry computed from the content
EntryFuture(call) ==
    LET c == content[call.entry.hash]
    IN  IF c.kind = "Unavailable" THEN CallErr("get_content failed")
        ELSE CallOk([name |-> call.entry.name.text,
                     ttype |-> c.kind,
                     hash |-> call.entry.hash,
                     size |-> SomeOf(Len(c.bytes)),
                     content_sha1 |-> IF c.kind = "Tree" THEN NoneOf
                                      ELSE SomeOf(Sha1(c.bytes))])

InFlight(k) == {d \in Callers : calls[d].pc \in {"waiting", "filling"} /\ calls[d].key = k}

Filling(k) == {d \in Callers : calls[d].pc = "filling" /\ calls[d].key = k}

\* the history of key k as a call of k is issued
InvokedAtIssue(k) == IF InFlight(k) = {} THEN 0 ELSE invoked[k]

DeliveredAtIssue(k) == IF InFlight(k) = {} THEN {} ELSE delivered[k]

\* get_cached_or_fill where every call that misses runs its own fetch
GetCachedOrFillNoCoalescing(c, call) ==
    LET k == call.key
    IN  /\ UNCHANGED cache
        /\ IF cache[k].some
           THEN /\ calls' = [calls EXCEPT ![c] = [call EXCEPT !.pc = "done",
                                                         !.out = CallOk(cache[k].val)]]
                /\ invoked' = [invoked EXCEPT ![k] = InvokedAtIssue(k)]
                /\ delivered' = [delivered EXCEPT
                                    ![k] = DeliveredAtIssue(k) \cup {CallOk(cache[k].val)}]
           ELSE /\ calls' = [calls EXCEPT ![c] = [call EXCEPT !.pc = "filling"]]
                /\ invoked' = [invoked EXCEPT ![k] = InvokedAtIssue(k) + 1]
                /\ delivered' = [delivered EXCEPT ![k] = DeliveredAtIssue(k)]

\* get_cached_or_fill(cache, cache_key, fetch), up to the result of the lookup
GetCachedOrFill(c, call) ==
    LET k == call.key
    IN  /\ UNCHANGED cache
        /\ IF cache[k].some
           THEN /\ calls' = [calls EXCEPT ![c] = [call EXCEPT !.pc = "done",
                                                         !.out = CallOk(cache[k].val)]]
                /\ invoked' = [invoked EXCEPT ![k] = InvokedAtIssue(k)]
                /\ delivered' = [delivered EXCEPT
                                    ![k] = DeliveredAtIssue(k) \cup {CallOk(cache[k].val)}]
           ELSE IF Filling(k) # {}
           THEN /\ calls' = [calls EXCEPT ![c] = [call EXCEPT !.pc = "waiting"]]
                /\ UNCHANGED <<invoked, delivered>>
           ELSE /\ calls' = [calls EXCEPT ![c] = [call EXCEPT !.pc = "filling"]]
                /\ invoked' = [invoked EXCEPT ![k] = InvokedAtIssue(k) + 1]
                /\ delivered' = [delivered EXCEPT ![k] = DeliveredAtIssue(k)]

\* how a call just issued is being served: from the cache ("hit"), by a fill
\* it runs ("fill"), by the fill of another call ("wait"), or without a cache
ServedVia(call, with_cache) ==
    CASE call.pc = "filling" -> "fill"
      [] call.pc = "waiting" -> "wait"
      [] call.pc = "direct" -> "direct"
      [] call.pc = "done" /\ call.out.kind = "Ok" /\ with_cache -> "hit"
      [] OTHER -> "none"

\* materialize_future(ctx, repoid, entry, cache)
MaterializeFuture(c, repoid, entry, with_cache) ==
    /\ calls[c].pc = "idle"
    /\ LET call == [CallIdle EXCEPT !.entry = entry,
                                    !.key = GetCacheKey(repoid, entry.hash)]
       IN  IF ~entry.name.some
           THEN /\ calls' = [calls EXCEPT ![c] = [call EXCEPT !.pc = "done",
                                                   !.out = CallErr("HgEntry has no name!?")]]
                /\ UNCHANGED <<cache, invoked, delivered>>
           ELSE IF ~entry.name.utf8
           THEN /\ calls' = [calls EXCEPT ![c] = [call EXCEPT !.pc = "done",
                                                   !.out = CallErr("FromUtf8Error")]]
                /\ UNCHANGED <<cache, invoked, delivered>>
           ELSE IF with_cache
           THEN GetCachedOrFill(c, call)
           ELSE /\ calls' = [calls EXCEPT ![c] = [call EXCEPT !.pc = "direct"]]
                /\ UNCHANGED <<cache, invoked, delivered>>
    /\ via' = [via EXCEPT ![c] = ServedVia(calls'[c], with_cache)]
    /\ UNCHANGED <<content, nonCacheVars>>

\* a fill whose failure is stored in the cache like a value
FillResolveCachesFailure(c) ==
    /\ calls[c].pc = "filling"
    /\ LET k == calls[c].key
           r == EntryFuture(calls[c])
       IN  /\ cache' = [cache EXCEPT ![k] = SomeOf(r.val)]
           /\ calls' = [d \in Callers |->
                          IF d = c \/ (calls[d].pc = "waiting" /\ calls[d].key = k)
                          THEN [calls[d] EXCEPT !.pc = "done", !.out = r]
                          ELSE calls[d]]
           /\ delivered' = [delivered EXCEPT ![k] = @ \cup {r}]
    /\ UNCHANGED <<content, invoked, via, nonCacheVars>>

\* a fill whose result is handed out but never stored
FillResolveNoStore(c) ==
    /\ calls[c].pc = "filling"
    /\ LET k == calls[c].key
           r == EntryFuture(calls[c])
       IN  /\ cache' = cache
           /\ calls' = [d \in Callers |->
                          IF d = c \/ (calls[d].pc = "waiting" /\ calls[d].key = k)
                          THEN [calls[d] EXCEPT !.pc = "done", !.out = r]
                          ELSE calls[d]]
           /\ delivered' = [delivered EXCEPT ![k] = @ \cup {r}]
    /\ UNCHANGED <<content, invoked, via, nonCacheVars>>

\* the fetch of a fill resolves: the result goes to the cache and to every waiter
FillResolve(c) ==
    /\ calls[c].pc = "filling"
    /\ LET k == calls[c].key
           r == EntryFuture(calls[c])
       IN  /\ cache' = IF r.kind = "Ok" THEN [cache EXCEPT ![k] = SomeOf(r.val)] ELSE cache
           /\ calls' = [d \in Callers |->
                          IF d = c \/ (calls[d].pc = "waiting" /\ calls[d].key = k)
                          THEN [calls[d] EXCEPT !.pc = "done", !.out = r]
                          ELSE calls[d]]
           /\ delivered' = [delivered EXCEPT ![k] = @ \cup {r}]
    /\ UNCHANGED <<content, invoked, via, nonCacheVars>>

\* without a cache the future of the call itself resolves
DirectResolve(c) ==
    /\ calls[c].pc = "direct"
    /\ calls' = [calls EXCEPT ![c] = [@ EXCEPT !.pc = "done", !.out = EntryFuture(calls[c])]]
    /\ UNCHANGED <<content, cache, invoked, delivered, via, nonCacheVars>>

\* the caller takes the result
CallReturn(c) ==
    /\ calls[c].pc = "done"
    /\ calls' = [calls EXCEPT ![c] = CallIdle]
    /\ via' = [via EXCEPT ![c] = "none"]
    /\ UNCHANGED <<content, cache, invoked, delivered, nonCacheVars>>

\* the pool drops an entry
Evict(k) ==
    /\ cache[k].some
    /\ cache' = [cache EXCEPT ![k] = NoneOf]
    /\ UNCHANGED <<content, calls, invoked, delivered, via, nonCacheVars>>

CacheUnused ==
    /\ content = [h \in Hashes |-> NoContent]
    /\ cache = [k \in CacheKeys |-> NoneOf]
    /\ calls = [c \in Callers |-> CallIdle]
    /\ invoked = [k \in CacheKeys |-> 0]
    /\ delivered = [k \in CacheKeys |-> {}]
    /\ via = [c \in Callers |-> "none"]

StoreUnused ==
    /\ repo_id = 0
    /\ shard_num = 1
    /\ hash = [x \in {} |-> 0]
    /\ master = [s \in {0} |-> EmptyDb]
    /\ replica = [s \in {0} |-> EmptyDb]
    /\ wr = WriterIdle
    /\ rd = ReaderIdle
    /\ firstPut = [k \in Keys |-> NoPut]
    /\ lastPut = [k \in Keys |-> NoPut]

(***************************************************************************)
(* ValidateNodeStream (revset/src/validation.rs): a stream wrapper that    *)
(* panics when the wrapped stream repeats a hash or raises the generation. *)
(***************************************************************************)
MaxGen == 3          \* largest generation number the wrapped stream yields
MaxPolls == 5        \* polls of one stream that are followed

Generations == 1 .. MaxGen
CsIds == {"x", "y", "z"}

NoGeneration == [some |-> FALSE, gen |-> 0]
SomeGeneration(g) == [some |-> TRUE, gen |-> g]

\* Option<Generation> ordering: None is below every Some
OptionGe(a, b) == IF ~b.some THEN TRUE ELSE a.some /\ a.gen >= b.gen

\* what a poll of the wrapped stream returns
WrappedNotReady == [kind |-> "NotReady", hash |-> "", gen |-> 0]
WrappedEnd == [kind |-> "End", hash |-> "", gen |-> 0]
WrappedErr == [kind |-> "Err", hash |-> "", gen |-> 0]
WrappedItem(h, g) == [kind |-> "Item", hash |-> h, gen |-> g]
WrappedPolls ==
    {WrappedNotReady, WrappedEnd, WrappedErr}
        \cup {WrappedItem(h, g) : h \in CsIds, g \in Generations}

\* what a poll of the ValidateNodeStream returns
PollNone == [kind |-> "None", hash |-> ""]
PollNotReady == [kind |-> "NotReady", hash |-> ""]
PollEnd == [kind |-> "End", hash |-> ""]
PollErr == [kind |-> "Err", hash |-> ""]
PollPanic == [kind |-> "Panic", hash |-> ""]
PollItem(h) == [kind |-> "Item", hash |-> h]

ValidateNodeStreamNew ==
    [last_generation |-> NoGeneration, seen_hashes |-> {}, out |-> PollNone]

\* poll without the generation assertion
ValidatePollAnyGeneration(s, next) ==
    CASE next.kind = "Err" -> [s EXCEPT !.out = PollErr]
      [] next.kind = "NotReady" -> [s EXCEPT !.out = PollNotReady]
      [] next.kind = "End" -> [s EXCEPT !.out = PollEnd]
      [] OTHER ->
            IF next.hash \in s.seen_hashes
            THEN [s EXCEPT !.out = PollPanic]
            ELSE [last_generation |-> SomeGeneration(next.gen),
                  seen_hashes |-> s.seen_hashes \cup {next.hash},
                  out |-> PollItem(next.hash)]

\* poll without the assertion on hashes seen before
ValidatePollAnyHash(s, next) ==
    CASE next.kind = "Err" -> [s EXCEPT !.out = PollErr]
      [] next.kind = "NotReady" -> [s EXCEPT !.out = PollNotReady]
      [] next.kind = "End" -> [s EXCEPT !.out = PollEnd]
      [] OTHER ->
            LET seen == s.seen_hashes \cup {next.hash}
            IN  IF ~(~s.last_generation.some
                       \/ OptionGe(s.last_generation, SomeGeneration(next.gen)))
                THEN [s EXCEPT !.seen_hashes = seen, !.out = PollPanic]
                ELSE [last_generation |-> SomeGeneration(next.gen),
                      seen_hashes |-> seen,
                      out |-> PollItem(next.hash)]

\* poll that forgets the last generation when the wrapped stream is not ready
ValidatePollNotReadyForgets(s, next) ==
    CASE next.kind = "Err" -> [s EXCEPT !.out = PollErr]
      [] next.kind = "NotReady" ->
            [s EXCEPT !.last_generation = NoGeneration, !.out = PollNotReady]
      [] next.kind = "End" -> [s EXCEPT !.out = PollEnd]
      [] OTHER ->
            IF next.hash \in s.seen_hashes
            THEN [s EXCEPT !.out = PollPanic]
            ELSE LET seen == s.seen_hashes \cup {next.hash}
                 IN  IF ~(~s.last_generation.some
                            \/ OptionGe(s.last_generation, SomeGeneration(next.gen)))
                     THEN [s EXCEPT !.seen_hashes = seen, !.out = PollPanic]
                     ELSE [last_generation |-> SomeGeneration(next.gen),
                           seen_hashes |-> seen,
                           out |-> PollItem(next.hash)]

\* ValidateNodeStream::poll, given what the wrapped stream answers
ValidatePoll(s, next) ==
    CASE next.kind = "Err" -> [s EXCEPT !.out = PollErr]
      [] next.kind = "NotReady" -> [s EXCEPT !.out = PollNotReady]
      [] next.kind = "End" -> [s EXCEPT !.out = PollEnd]
      [] OTHER ->
            IF next.hash \in s.seen_hashes
            THEN [s EXCEPT !.out = PollPanic]
            ELSE LET seen == s.seen_hashes \cup {next.hash}
                 IN  IF ~(~s.last_generation.some
                            \/ OptionGe(s.last_generation, SomeGeneration(next.gen)))
                     THEN [s EXCEPT !.seen_hashes = seen, !.out = PollPanic]
                     ELSE [last_generation |-> SomeGeneration(next.gen),
                           seen_hashes |-> seen,
                           out |-> PollItem(next.hash)]

\* one poll of the stream; a panic unwinds the task, which polls no more
Poll ==
    /\ vns.out # PollPanic
    /\ Len(wrapped) < MaxPolls
    /\ \E next \in WrappedPolls :
          /\ vns' = ValidatePoll(vns, next)
          /\ wrapped' = Append(wrapped, next)
          /\ emitted' = IF vns'.out.kind = "Item"
                        THEN Append(emitted, [hash |-> next.hash, gen |-> next.gen])
                        ELSE emitted
    /\ UNCHANGED nonValidateVars

ValidateUnused ==
    /\ vns = ValidateNodeStreamNew
    /\ emitted = <<>>
    /\ wrapped = <<>>

(***************************************************************************)
(* upload_blobs (bundle2-resolver/src/upload_blobs.rs): a fold over the    *)
(* stream of blobs that uploads each blob and collects the results in a    *)
(* map keyed by node hash.                                                 *)
(***************************************************************************)
MaxBlobs == 3        \* longest stream of blobs handed to upload_blobs

NodeHashes == {"n1", "n2"}
BlobValues == {"v1", "v2"}

\* a blob of the stream, with what UploadableBlob::upload returns for it
BlobItems == [key : NodeHashes, val : BlobValues, ok : BOOLEAN]

\* the stream of blobs: its items, and whether it ends with an error
BlobStreams == [items : SeqsUpTo(BlobItems, MaxBlobs), fails : BOOLEAN]

EmptyMap == [k \in {} |-> ""]

MapInsert(map, key, val) ==
    [k \in DOMAIN map \cup {key} |-> IF k = key THEN val ELSE map[k]]

ErrBlobAlreadyProvided == "Blob already provided before"
ErrUploadFailed == "upload failed"
ErrStreamFailed == "stream failed"

FoldOk(map) == [ok |-> TRUE, map |-> map, err |-> ""]
FoldErr(e) == [ok |-> FALSE, map |-> EmptyMap, err |-> e]

\* the closure of the fold where a blob of a known node hash replaces the entry
UploadItemReplace(map, item) ==
    IF ~item.ok THEN FoldErr(ErrUploadFailed)
    ELSE FoldOk(MapInsert(map, item.key, item.val))

\* the closure of the fold: upload the blob, insert the result, fail on a duplicate
UploadItem(map, item) ==
    IF ~item.ok THEN FoldErr(ErrUploadFailed)
    ELSE IF item.key \in DOMAIN map THEN FoldErr(ErrBlobAlreadyProvided)
    ELSE FoldOk(MapInsert(map, item.key, item.val))

\* what an upload leaves in the repository: the blob, stored under its node hash
Uploaded(blobs, item) == IF item.ok THEN blobs \cup {item.key} ELSE blobs

\* called is the history of the blobs, by their place in the stream, that
\* upload was called on
UploadIdle ==
    [pc |-> "idle", stream |-> [items |-> <<>>, fails |-> FALSE], next |-> 1,
     map |-> EmptyMap, called |-> <<>>, out |-> FoldOk(EmptyMap)]

\* upload_blobs(repo, blobs): the fold starts over an empty map
UploadStart(stream) == [UploadIdle EXCEPT !.pc = "fold", !.stream = stream]

\* one poll of the fold: the next blob, or the end of the stream
UploadPolled(u) ==
    IF u.next > Len(u.stream.items)
    THEN [u EXCEPT !.pc = "done",
                   !.out = IF u.stream.fails THEN FoldErr(ErrStreamFailed)
                           ELSE FoldOk(u.map)]
    ELSE LET r == UploadItem(u.map, u.stream.items[u.next])
         IN  IF r.ok THEN [u EXCEPT !.next = @ + 1, !.map = r.map,
                                    !.called = Append(@, u.next)]
             ELSE [u EXCEPT !.pc = "done", !.next = @ + 1, !.out = r,
                            !.called = Append(@, u.next)]

\* the blobs of the repository after that poll
UploadPolledBlobs(u, blobs) ==
    IF u.next > Len(u.stream.items) THEN blobs
    ELSE Uploaded(blobs, u.stream.items[u.next])

UploadBlobs(stream) ==
    /\ up.pc = "idle"
    /\ up' = UploadStart(stream)
    /\ UNCHANGED <<changesets, bookmarks, phases, blobrepo, lock, unb, cmd, nonClientVars>>

UploadPoll ==
    /\ up.pc = "fold"
    /\ up' = UploadPolled(up)
    /\ blobrepo' = UploadPolledBlobs(up, blobrepo)
    /\ UNCHANGED <<changesets, bookmarks, phases, lock, unb, cmd, nonClientVars>>

(***************************************************************************)
(* RepoClient::unbundle (repo_client/src/client/mod.rs): the read-only     *)
(* status is fetched, then bundle2_resolver::resolve runs under the        *)
(* command timeout.  The resolver goes through its stages: upload of the   *)
(* blobs, verification of the changeset hashes, the bookmark update, the   *)
(* phase update.                                                           *)
(***************************************************************************)
\* what self.repo.readonly() resolves to: a status, or an error
LockFetches == {"ReadWrite", "ReadOnly", "Error"}

RepoReadWrite == [ro |-> FALSE, reason |-> ""]
RepoReadOnly(reason) == [ro |-> TRUE, reason |-> reason]

\* a failed fetch of the status counts as read-write
ReadOnlyStatusErrorIsReadWrite(fetched) ==
    IF fetched = "ReadOnly" THEN RepoReadOnly("") ELSE RepoReadWrite

\* readonly().or_else(...): a failed fetch of the status counts as read-only
ReadOnlyStatus(fetched) ==
    CASE fetched = "Error" -> RepoReadOnly("Failed to fetch repo lock status")
      [] fetched = "ReadOnly" -> RepoReadOnly("")
      [] OTHER -> RepoReadWrite

\* a push: the blobs of the bundle and the bookmark move it asks for
Pushes == [blobs : BlobStreams, book : {"master"}, to : {2}]

RepoState == [blobs |-> blobrepo, bookmarks |-> bookmarks, phases |-> phases]

UnbOk == [kind |-> "Ok", err |-> ""]
UnbErr(e) == [kind |-> "Err", err |-> e]

ErrTimeout == "timeout"
ErrReadOnly == "ReadOnly"

UnbIdle ==
    [pc |-> "idle", push |-> [blobs |-> [items |-> <<>>, fails |-> FALSE],
                              book |-> "master", to |-> 0],
     read_write |-> RepoReadWrite, out |-> UnbOk,
     before |-> [blobs |-> {}, bookmarks |-> [b \in {} |-> 0], phases |-> {}]]

\* the stages of the resolver, during which the timeout of the command can fire
ResolverStages == {"resolve", "upload", "verify", "bookmarks", "phases"}

\* unbundle(heads, stream, ...): the status of the repository is asked for
Unbundle(push) ==
    /\ unb.pc = "idle"
    /\ up.pc = "idle"
    /\ unb' = [UnbIdle EXCEPT !.pc = "readonly", !.push = push, !.before = RepoState]
    /\ UNCHANGED <<changesets, bookmarks, phases, blobrepo, lock, up, cmd, nonClientVars>>

\* the status arrives, and the resolver is invoked with it
ReadonlyFetched ==
    /\ unb.pc = "readonly"
    /\ unb' = [unb EXCEPT !.pc = "resolve", !.read_write = ReadOnlyStatus(lock)]
    /\ UNCHANGED <<changesets, bookmarks, phases, blobrepo, lock, up, cmd, nonClientVars>>

\* resolve: fail fast on a read-only repository, else start the upload stage
Resolve ==
    /\ unb.pc = "resolve"
    /\ IF unb.read_write.ro
       THEN /\ unb' = [unb EXCEPT !.pc = "done", !.out = UnbErr(ErrReadOnly)]
            /\ UNCHANGED up
       ELSE /\ unb' = [unb EXCEPT !.pc = "upload"]
            /\ up' = UploadStart(unb.push.blobs)
    /\ UNCHANGED <<changesets, bookmarks, phases, blobrepo, lock, cmd, nonClientVars>>

\* the upload stage ends: with the map of the blobs, or with its error
UploadFinished ==
    /\ unb.pc = "upload"
    /\ up.pc = "done"
    /\ unb' = IF up.out.ok THEN [unb EXCEPT !.pc = "verify"]
              ELSE [unb EXCEPT !.pc = "done", !.out = UnbErr(up.out.err)]
    /\ up' = UploadIdle
    /\ UNCHANGED <<changesets, bookmarks, phases, blobrepo, lock, cmd, nonClientVars>>

\* the changeset hashes are recomputed and verified
VerifyChangesets ==
    /\ unb.pc = "verify"
    /\ \E ok \in BOOLEAN :
          unb' = IF ok THEN [unb EXCEPT !.pc = "bookmarks"]
                 ELSE [unb EXCEPT !.pc = "done", !.out = UnbErr("hash mismatch")]
    /\ UNCHANGED <<changesets, bookmarks, phases, blobrepo, lock, up, cmd, nonClientVars>>

\* the bookmark transaction commits, or fails and changes nothing
UpdateBookmarks ==
    /\ unb.pc = "bookmarks"
    /\ \E ok \in BOOLEAN :
          IF ok
          THEN /\ bookmarks' = [bookmarks EXCEPT ![unb.push.book] = unb.push.to]
               /\ unb' = [unb EXCEPT !.pc = "phases"]
          ELSE /\ UNCHANGED bookmarks
               /\ unb' = [unb EXCEPT !.pc = "done", !.out = UnbErr("bookmark transaction failed")]
    /\ UNCHANGED <<changesets, phases, blobrepo, lock, up, cmd, nonClientVars>>

\* the pushed head becomes Public
UpdatePhases ==
    /\ unb.pc = "phases"
    /\ phases' = phases \cup {unb.push.to}
    /\ unb' = [unb EXCEPT !.pc = "done", !.out = UnbOk]
    /\ UNCHANGED <<changesets, bookmarks, blobrepo, lock, up, cmd, nonClientVars>>

\* res.timeout(timeout_duration()): the resolver future is dropped where it stands
UnbundleTimeout ==
    /\ unb.pc \in ResolverStages
    /\ unb' = [unb EXCEPT !.pc = "done", !.out = UnbErr(ErrTimeout)]
    /\ up' = UploadIdle
    /\ UNCHANGED <<changesets, bookmarks, phases, blobrepo, lock, cmd, nonClientVars>>

(***************************************************************************)
(* RepoClient::between (repo_client/src/client/mod.rs): for every pair     *)
(* (top, bottom) a ParentStream walks the first parents from top, and the  *)
(* entries whose index is the next power of two are collected.             *)
(* Changesets are numbered from 1; 0 is NULL_HASH.                         *)
(***************************************************************************)
MaxCommits == 3      \* number of changesets of the small repositories

NullHash == 0

CmdOk(v) == [kind |-> "Ok", val |-> v, err |-> ""]
CmdErr(e) == [kind |-> "Err", val |-> <<>>, err |-> e]

ErrChangesetMissing == "changeset missing"

CmdIdle ==
    [op |-> "", pc |-> "idle", pairs |-> <<>>, k |-> 1, n |-> NullHash,
     bottom |-> NullHash, i |-> 0, f |-> 1, acc |-> <<>>, lists |-> <<>>,
     key |-> <<"bad", "">>, nodes |-> <<>>, stage |-> "", found |-> {},
     prev |-> [op |-> "", out |-> CmdOk(<<>>)], out |-> CmdOk(<<>>)]

\* a walk that only ends at the null hash
WalkEndsAtNullOnly(n, bottom) == n = NullHash

\* ParentStream::poll: the walk ends at bottom or at the null hash
WalkEnds(n, bottom) == n = bottom \/ n = NullHash

\* a filter that takes entry i when i + 1 is the next power of two
TakeEntryBefore(i, f) == i + 1 = f

\* the filter over the enumerated stream: entry i is taken when i = f
TakeEntry(i, f) == i = f

\* ParentStream::new(.., top, bottom) under enumerate() and the filter with f = 1
StartPair(c, k) ==
    IF k > Len(c.pairs)
    THEN [c EXCEPT !.k = k]
    ELSE [c EXCEPT !.k = k, !.n = c.pairs[k][1], !.bottom = c.pairs[k][2],
                   !.i = 0, !.f = 1, !.acc = <<>>]

\* one poll: of the ParentStream of the pair in progress, or of the list of pairs
BetweenPolled(c, cs) ==
    IF c.k > Len(c.pairs)
    THEN [c EXCEPT !.pc = "done", !.out = CmdOk(c.lists)]
    ELSE IF WalkEnds(c.n, c.bottom)
    THEN StartPair([c EXCEPT !.lists = Append(@, c.acc)], c.k + 1)
    ELSE IF c.n \notin DOMAIN cs
    THEN [c EXCEPT !.pc = "done", !.out = CmdErr(ErrChangesetMissing)]
    ELSE [c EXCEPT !.n = cs[c.n],
                   !.i = @ + 1,
                   !.f = IF TakeEntry(c.i, c.f) THEN 2 * @ ELSE @,
                   !.acc = IF TakeEntry(c.i, c.f) THEN Append(@, c.n) ELSE @]

\* between(pairs)
Between(pairs) ==
    /\ cmd.pc = "idle"
    /\ cmd' = StartPair([CmdIdle EXCEPT !.op = "between", !.pc = "running",
                                       !.pairs = pairs], 1)
    /\ UNCHANGED <<changesets, bookmarks, phases, blobrepo, lock, up, unb, nonClientVars>>

BetweenPoll ==
    /\ cmd.op = "between"
    /\ cmd.pc = "running"
    /\ cmd' = BetweenPolled(cmd, changesets)
    /\ UNCHANGED <<changesets, bookmarks, phases, blobrepo, lock, up, unb, nonClientVars>>

\* .timeout(timeout_duration()).map_err(process_timeout_error)
CommandTimeout ==
    /\ cmd.pc = "running"
    /\ cmd' = [cmd EXCEPT !.pc = "done", !.out = CmdErr(ErrTimeout)]
    /\ UNCHANGED <<changesets, bookmarks, phases, blobrepo, lock, up, unb, nonClientVars>>

(***************************************************************************)
(* RepoClient::lookup.  A key is <<"hex", n>> (the 40 hex digits of the    *)
(* hash of changeset n), <<"name", s>> (another ASCII string) or           *)
(* <<"bad", s>> (a string that is no bookmark name).                       *)
(***************************************************************************)
HexKeys == {<<"hex", n>> : n \in 1 .. (MaxCommits + 1)}
NameKeys == {<<"name", "master">>}
BadKeys == {<<"bad", "\\xff">>}
LookupKeys == HexKeys \cup NameKeys \cup BadKeys

\* HgNodeHash::from_str(&key).ok()
NodeFromStr(key) == IF key[1] = "hex" THEN SomeOf(key[2]) ELSE NoneOf

\* node.to_hex()
ToHex(node) == <<"hex", node>>

\* Bookmark::new(&key).ok()
BookmarkNew(key) == IF key[1] = "bad" THEN NoneOf ELSE SomeOf(key)

\* generate_resp_buf(success, message)
GenerateRespBuf(success, message) ==
    <<IF success THEN "1" ELSE "0", " ">> \o message \o <<"\n">>

\* a match that takes every key that is a bookmark name for a bookmark
LookupBranchBookmarkFirst(key) ==
    IF BookmarkNew(key).some THEN "bookmark" ELSE "invalid"

\* match (node, bookmark): the branch lookup takes for a key
LookupBranch(key) ==
    CASE NodeFromStr(key).some /\ BookmarkNew(key).some -> "changeset"
      [] ~NodeFromStr(key).some /\ BookmarkNew(key).some -> "bookmark"
      [] OTHER -> "invalid"

\* check_bookmark_exists: the reply for what get_bookmark found
BookmarkReply(key, bm) ==
    IF key \in DOMAIN bm THEN GenerateRespBuf(TRUE, <<ToHex(bm[key])>>)
    ELSE GenerateRespBuf(FALSE, <<key, " not found">>)

\* lookup(key): the key is parsed and the branch chosen
Lookup(key) ==
    /\ cmd.pc = "idle"
    /\ cmd' = [CmdIdle EXCEPT !.op = "lookup", !.pc = "running", !.key = key,
                              !.stage = LookupBranch(key)]
    /\ UNCHANGED <<changesets, bookmarks, phases, blobrepo, lock, up, unb, nonClientVars>>

\* a key that parses as neither is answered at once
LookupInvalid ==
    /\ cmd.op = "lookup" /\ cmd.pc = "running" /\ cmd.stage = "invalid"
    /\ cmd' = [cmd EXCEPT !.pc = "done",
                          !.out = CmdOk(GenerateRespBuf(FALSE, <<"invalid input">>))]
    /\ UNCHANGED <<changesets, bookmarks, phases, blobrepo, lock, up, unb, nonClientVars>>

\* repo.changeset_exists(csid) resolves, or fails
LookupChangesetExists ==
    /\ cmd.op = "lookup" /\ cmd.pc = "running" /\ cmd.stage = "changeset"
    /\ \E fails \in BOOLEAN :
          cmd' = IF fails THEN [cmd EXCEPT !.pc = "done", !.out = CmdErr("changeset_exists failed")]
                 ELSE IF NodeFromStr(cmd.key).val \in DOMAIN changesets
                 THEN [cmd EXCEPT !.pc = "done",
                          !.out = CmdOk(GenerateRespBuf(TRUE, <<ToHex(NodeFromStr(cmd.key).val)>>))]
                 ELSE [cmd EXCEPT !.stage = "bookmark"]
    /\ UNCHANGED <<changesets, bookmarks, phases, blobrepo, lock, up, unb, nonClientVars>>

\* repo.get_bookmark(&bookmark) resolves, or fails
LookupBookmark ==
    /\ cmd.op = "lookup" /\ cmd.pc = "running" /\ cmd.stage = "bookmark"
    /\ \E fails \in BOOLEAN :
          cmd' = IF fails THEN [cmd EXCEPT !.pc = "done", !.out = CmdErr("get_bookmark failed")]
                 ELSE [cmd EXCEPT !.pc = "done", !.out = CmdOk(BookmarkReply(cmd.key, bookmarks))]
    /\ UNCHANGED <<changesets, bookmarks, phases, blobrepo, lock, up, unb, nonClientVars>>

(***************************************************************************)
(* RepoClient::known and RepoClient::knownnodes.                           *)
(***************************************************************************)
\* the bonsai changeset id mapped to an hg changeset id
BonsaiOf(node) == <<"bcs", node>>

\* get_hg_bonsai_mapping(nodes): the (hg, bonsai) pairs of the nodes that exist
HgBonsaiMapping(nodes, cs) ==
    {<<nodes[i], BonsaiOf(nodes[i])>> : i \in {j \in 1 .. Len(nodes) : nodes[j] \in DOMAIN cs}}

\* the hg changesets of the mapping, whatever their phase
FoundHgChangesetsAnyPhase(mapping, public) == {m[1] : m \in mapping}

\* phases.calculated filtered by Phase::Public and mapped back through bcs_hg_mapping
FoundHgChangesets(mapping, public) ==
    {m[1] : m \in {x \in mapping : x[2] \in {BonsaiOf(c) : c \in public}}}

\* nodes.into_iter().map(|node| found.contains(&node)).collect()
ContainsEach(nodes, found) == [i \in 1 .. Len(nodes) |-> nodes[i] \in found]

\* known(nodes) or knownnodes(nodes): the mapping is asked for
KnownCall(op, nodes) ==
    /\ cmd.pc = "idle"
    /\ cmd' = [CmdIdle EXCEPT !.op = op, !.pc = "running", !.nodes = nodes,
                              !.stage = "mapping", !.prev = cmd.prev]
    /\ UNCHANGED <<changesets, bookmarks, phases, blobrepo, lock, up, unb, nonClientVars>>

\* get_hg_bonsai_mapping resolves, or fails; knownnodes answers from it
KnownMapped ==
    /\ cmd.op \in {"known", "knownnodes"} /\ cmd.pc = "running" /\ cmd.stage = "mapping"
    /\ \E fails \in BOOLEAN :
          LET mapping == HgBonsaiMapping(cmd.nodes, changesets)
          IN  cmd' = IF fails
                     THEN [cmd EXCEPT !.pc = "done", !.out = CmdErr("get_hg_bonsai_mapping failed")]
                     ELSE IF cmd.op = "knownnodes"
                     THEN [cmd EXCEPT !.pc = "done",
                              !.out = CmdOk(ContainsEach(cmd.nodes, {m[1] : m \in mapping}))]
                     ELSE [cmd EXCEPT !.stage = "phases", !.found = mapping]
    /\ UNCHANGED <<changesets, bookmarks, phases, blobrepo, lock, up, unb, nonClientVars>>

\* phases_hint.get_all resolves, or fails; known answers from the Public ones
KnownPhases ==
    /\ cmd.op = "known" /\ cmd.pc = "running" /\ cmd.stage = "phases"
    /\ \E fails \in BOOLEAN :
          cmd' = IF fails THEN [cmd EXCEPT !.pc = "done", !.out = CmdErr("get_all failed")]
                 ELSE [cmd EXCEPT !.pc = "done",
                          !.out = CmdOk(ContainsEach(cmd.nodes,
                                                     FoundHgChangesets(cmd.found, phases)))]
    /\ UNCHANGED <<changesets, bookmarks, phases, blobrepo, lock, up, unb, nonClientVars>>

\* the client takes the reply; the next command sees what this one answered
CommandReturn ==
    /\ cmd.pc = "done"
    /\ cmd' = [CmdIdle EXCEPT !.nodes = cmd.nodes,
                              !.prev = [op |-> cmd.op, out |-> cmd.out]]
    /\ UNCHANGED <<changesets, bookmarks, phases, blobrepo, lock, up, unb, nonClientVars>>

(***************************************************************************)
(* hello and the pull of a client (repo_client/src/client/mod.rs).  A text *)
(* is a sequence of tokens; a token is a word or one reserved character,   *)
(* so that percent-encoding is a change of the text and not the identity.  *)
(***************************************************************************)
RECURSIVE Join(_, _)
\* [text].join(sep)
Join(texts, sep) ==
    IF texts = <<>> THEN <<>>
    ELSE IF Len(texts) = 1 THEN texts[1]
    ELSE texts[1] \o sep \o Join(Tail(texts), sep)

RECURSIVE Split(_, _)
\* text.split(sep): the pieces of a text between the separators
Split(text, sep) ==
    IF \A i \in DOMAIN text : text[i] # sep THEN <<text>>
    ELSE LET at == CHOOSE i \in DOMAIN text :
                       text[i] = sep /\ \A j \in 1 .. i - 1 : text[j] # sep
         IN <<SubSeq(text, 1, at - 1)>> \o Split(SubSeq(text, at + 1, Len(text)), sep)

PercentEncodeToken(t) ==
    CASE t = "=" -> "%3D"
      [] t = "," -> "%2C"
      [] t = ":" -> "%3A"
      [] t = "\n" -> "%0A"
      [] OTHER -> t

PercentDecodeToken(t) ==
    CASE t = "%3D" -> "="
      [] t = "%2C" -> ","
      [] t = "%3A" -> ":"
      [] t = "%0A" -> "\n"
      [] OTHER -> t

percent_encode(text) == [i \in DOMAIN text |-> PercentEncodeToken(text[i])]

percent_decode(text) == [i \in DOMAIN text |-> PercentDecodeToken(text[i])]

\* a capability encoded without its values
EncodeCapKeyOnly(cap) == cap.key

\* one capability: its key, or key=value,value
EncodeCap(cap) ==
    IF Len(cap.value) > 0 THEN Join(<<cap.key, Join(cap.value, <<",">>)>>, <<"=">>)
    ELSE cap.key

EncodeCaps(caps) ==
    percent_encode(Join([i \in DOMAIN caps |-> EncodeCap(caps[i])], <<"\n">>))

CapHG20 == [key |-> <<"HG20">>, value |-> <<>>]

CapListkeys == [key |-> <<"listkeys">>, value |-> <<>>]

\* the capabilities that follow the place of "listkeys"
CapsAfterListkeys ==
    << [key |-> <<"changegroup">>, value |-> << <<"02">> >>],
       [key |-> <<"b2x", ":", "infinitepush">>, value |-> <<>>],
       [key |-> <<"b2x", ":", "infinitepushscratchbookmarks">>, value |-> <<>>],
       [key |-> <<"pushkey">>, value |-> <<>>],
       [key |-> <<"treemanifestserver">>, value |-> << <<"True">> >>],
       [key |-> <<"b2x", ":", "rebase">>, value |-> <<>>],
       [key |-> <<"b2x", ":", "rebasepackpart">>, value |-> <<>>],
       [key |-> <<"phases">>, value |-> << <<"heads">> >>] >>

\* bundle2caps with the line ("listkeys", vec![]) enabled
bundle2capsWithListkeys == EncodeCaps(<<CapHG20, CapListkeys>> \o CapsAfterListkeys)

bundle2caps == EncodeCaps(<<CapHG20>> \o CapsAfterListkeys)

wireprotocaps ==
    << <<"clienttelemetry">>, <<"lookup">>, <<"known">>, <<"getbundle">>,
       <<"unbundle", "=", "HG10GZ", ",", "HG10BZ", ",", "HG10UN">>,
       <<"gettreepack">>, <<"remotefilelog">>, <<"pushkey">>,
       <<"stream-preferred">>, <<"stream_option">>,
       <<"streamreqs", "=", "generaldelta", ",", "lz4revlog", ",", "revlogv1">>,
       <<"treeonly">>, <<"knownnodes">> >>

\* the value of "capabilities" in the reply of hello
HelloCapabilities == wireprotocaps \o << <<"bundle2", "=">> \o bundle2caps >>

\* the client's reading of the reply: the sub-capabilities of bundle2
SubCaps(caps) ==
    IF \E i \in DOMAIN caps : Len(caps[i]) >= 2 /\ SubSeq(caps[i], 1, 2) = <<"bundle2", "=">>
    THEN LET i == CHOOSE i \in DOMAIN caps :
                      Len(caps[i]) >= 2 /\ SubSeq(caps[i], 1, 2) = <<"bundle2", "=">>
         IN Split(percent_decode(SubSeq(caps[i], 3, Len(caps[i]))), "\n")
    ELSE <<>>

\* a list of capabilities names the key, alone or with values
Advertises(caps, key) ==
    \E i \in DOMAIN caps :
        \/ caps[i] = key
        \/ /\ Len(caps[i]) > Len(key)
           /\ SubSeq(caps[i], 1, Len(key) + 1) = key \o <<"=">>

NoBookmarks == [b \in {} |-> 0]

NoBundle == [heads |-> {}, commits |-> {}, bookmarks |-> NoBookmarks]

PullIdle ==
    [pc |-> "idle", caps |-> <<>>, bookmarks |-> NoBookmarks, heads |-> {},
     bundle |-> NoBundle, rewound |-> FALSE]

RECURSIVE FirstParentAncestors(_)
\* the changeset and what it descends from
FirstParentAncestors(c) ==
    IF c = NullHash THEN {} ELSE {c} \cup FirstParentAncestors(changesets[c])

\* get_heads_maybe_stale: the changesets the bookmarks point to
Heads == {bookmarks[b] : b \in DOMAIN bookmarks}

\* create_bundle: the changesets of the heads, and the bookmarks of the moment
\* of the bundle when the client asked for the listkeys of "bookmarks"
create_bundle(args) ==
    [heads |-> args.heads,
     commits |-> UNION {FirstParentAncestors(h) : h \in args.heads},
     bookmarks |-> IF "bookmarks" \in args.listkeys THEN bookmarks ELSE NoBookmarks]

\* what the client asks of getbundle: the heads it discovered, and the
\* bookmarks too when the server can put them in the bundle
PullArgs ==
    [heads |-> pull.heads,
     listkeys |-> IF Advertises(SubCaps(pull.caps), <<"listkeys">>)
                  THEN {"bookmarks"} ELSE {}]

pullFrame == <<phases, blobrepo, lock, up, unb, cmd, nonWireVars, run, gtp, gf, gp, so>>

hello ==
    /\ pull.pc = "idle"
    /\ pull' = [pull EXCEPT !.pc = "hello", !.caps = HelloCapabilities]
    /\ UNCHANGED <<changesets, bookmarks, pullFrame>>

\* a server without the listkeys capability of bundle2 is asked for its
\* bookmarks before discovery
listkeys ==
    /\ pull.pc = "hello"
    /\ pull' = [pull EXCEPT !.pc = "discovery",
                            !.bookmarks =
                                IF Advertises(SubCaps(pull.caps), <<"listkeys">>)
                                THEN NoBookmarks ELSE bookmarks]
    /\ UNCHANGED <<changesets, bookmarks, pullFrame>>

heads ==
    /\ pull.pc = "discovery"
    /\ pull' = [pull EXCEPT !.pc = "getbundle", !.heads = Heads]
    /\ UNCHANGED <<changesets, bookmarks, pullFrame>>

getbundle ==
    /\ pull.pc = "getbundle"
    /\ pull' = [pull EXCEPT !.pc = "done", !.bundle = create_bundle(PullArgs)]
    /\ UNCHANGED <<changesets, bookmarks, pullFrame>>

\* another client pushes a changeset on top of a bookmark
PushMovesBookmark(b) ==
    /\ pull.pc # "done"
    /\ Cardinality(DOMAIN changesets) < MaxCommits
    /\ LET c == Cardinality(DOMAIN changesets) + 1
       IN /\ changesets' = [x \in DOMAIN changesets \cup {c} |->
                               IF x = c THEN bookmarks[b] ELSE changesets[x]]
          /\ bookmarks' = [bookmarks EXCEPT ![b] = c]
    /\ UNCHANGED <<pull, pullFrame>>

\* another client moves a bookmark with pushkey, forward or not
PushkeyMovesBookmark(b, c) ==
    /\ pull.pc # "done"
    /\ c \in DOMAIN changesets
    /\ c # bookmarks[b]
    /\ bookmarks' = [bookmarks EXCEPT ![b] = c]
    /\ pull' = [pull EXCEPT !.rewound = @ \/ bookmarks[b] \notin FirstParentAncestors(c)]
    /\ UNCHANGED <<changesets, pullFrame>>

(***************************************************************************)
(* The timeout of a command (repo_client/src/client/mod.rs 103-124 and the *)
(* .timeout / .whole_stream_timeout of each command).  Time is counted in  *)
(* seconds and passes in ticks; the work of a command needs some time, or  *)
(* hangs, and may fail.  An error is a type and a message.                 *)
(***************************************************************************)
MaxTicks == 20

TickSecs == 5 * 60

timeout_duration == 15 * 60

getfiles_timeout_duration == 90 * 60

NoTimeout == 0 - 1

\* failure::err_msg: an error of the message type
err_msg(m) == [type |-> "ErrorMessage", msg |-> m]

\* an error of an enumeration of error kinds
ErrorKind(k) == [type |-> "ErrorKind", msg |-> k]

\* tokio's TimeoutError: the error of the wrapped work, or the time elapsed
TimeoutInner(e) == [inner |-> <<e>>]

TimeoutElapsed == [inner |-> <<>>]

process_timeout_error(err) ==
    IF err.inner # <<>> THEN err.inner[1] ELSE err_msg("timeout")

StreamTimeoutErrorError(e) == [stream |-> "Error", err |-> <<e>>]

StreamTimeoutErrorTimeout == [stream |-> "Timeout", err |-> <<>>]

process_stream_timeout_error(err) ==
    IF err.stream = "Error" THEN err.err[1] ELSE err_msg("timeout")

FutureCommands ==
    {"between", "clienttelemetry", "heads", "lookup", "known", "knownnodes",
     "hello", "listkeys", "unbundle"}

StreamCommands == {"getbundle", "gettreepack", "getfiles", "stream_out_shallow", "getpackv1"}

Commands == FutureCommands \cup StreamCommands

Namespaces == {"bookmarks", "phases"}

\* the waits of a command in order, each with the timeout it runs under
Stages(command, namespace) ==
    CASE command = "unbundle" ->
             << [wait |-> "readonly", limit |-> NoTimeout],
                [wait |-> "resolve", limit |-> timeout_duration] >>
      [] command = "listkeys" /\ namespace # "bookmarks" ->
             << [wait |-> "ready", limit |-> NoTimeout] >>
      [] command \in {"getfiles", "getpackv1"} ->
             << [wait |-> "work", limit |-> getfiles_timeout_duration] >>
      [] OTHER ->
             << [wait |-> "work", limit |-> timeout_duration] >>

\* the work of these is a value at hand: future::ok
ReadyAtOnce(command, namespace) ==
    \/ command = "hello"
    \/ command = "listkeys" /\ namespace # "bookmarks"

\* an error the work of the command raises
WorkError(command) ==
    CASE command = "gettreepack" -> err_msg("directories param is not supported")
      [] command = "unbundle" -> err_msg("Blob already provided before")
      [] OTHER -> ErrorKind("RepoError")

WorkErrors == {WorkError(c) : c \in Commands}

Needs == {0, 10 * 60, 30 * 60, 100 * 60}

RunOk == [kind |-> "Ok", err |-> err_msg("")]

RunErr(e) == [kind |-> "Err", err |-> e]

RunIdle ==
    [pc |-> "idle", command |-> "", namespace |-> "", stage |-> 0, need |-> 0,
     hangs |-> FALSE, fails |-> FALSE, elapsed |-> 0, total |-> 0,
     timed_out |-> FALSE, out |-> RunOk]

RunStage == Stages(run.command, run.namespace)[run.stage]

RunLastStage == run.stage = Len(Stages(run.command, run.namespace))

WorkReady == ~run.hangs /\ run.elapsed >= run.need

TimeoutDue == RunStage.limit # NoTimeout /\ run.elapsed >= RunStage.limit

\* the error of the work as the timeout wrapper of the command hands it on
ThroughWrapper(command, limit, e) ==
    IF limit = NoTimeout THEN e
    ELSE IF command \in StreamCommands
    THEN process_stream_timeout_error(StreamTimeoutErrorError(e))
    ELSE process_timeout_error(TimeoutInner(e))

\* the error of the wrapper when the time has elapsed
Elapsed(command) ==
    IF command \in StreamCommands
    THEN process_stream_timeout_error(StreamTimeoutErrorTimeout)
    ELSE process_timeout_error(TimeoutElapsed)

runFrame == <<clientVars, nonWireVars, pull, gtp, gf, gp, so>>

RunCommand(command, namespace, need, hangs, fails) ==
    /\ run.pc = "idle"
    /\ namespace = "bookmarks" \/ command = "listkeys"
    /\ ReadyAtOnce(command, namespace) => need = 0 /\ ~hangs /\ ~fails
    /\ run' = [RunIdle EXCEPT !.pc = "running", !.command = command,
                              !.namespace = namespace, !.stage = 1, !.need = need,
                              !.hangs = hangs, !.fails = fails]
    /\ UNCHANGED runFrame

\* time passes while the command waits for its work and for its timer
Tick ==
    /\ run.pc = "running"
    /\ ~WorkReady
    /\ ~TimeoutDue
    /\ run.total < MaxTicks * TickSecs
    /\ run' = [run EXCEPT !.elapsed = @ + TickSecs, !.total = @ + TickSecs]
    /\ UNCHANGED runFrame

\* the work of the stage is polled first and is ready: the next stage
\* begins with its own timer, or the command ends with what the work gave
WorkCompletes ==
    /\ run.pc = "running"
    /\ WorkReady
    /\ IF ~RunLastStage
       THEN run' = [run EXCEPT !.stage = @ + 1, !.elapsed = 0]
       ELSE run' = [run EXCEPT
                !.pc = "done",
                !.out = IF run.fails
                        THEN RunErr(ThroughWrapper(run.command, RunStage.limit,
                                                   WorkError(run.command)))
                        ELSE RunOk]
    /\ UNCHANGED runFrame

\* the work is not ready and the time of the stage has elapsed
TimeoutFires ==
    /\ run.pc = "running"
    /\ ~WorkReady
    /\ TimeoutDue
    /\ run' = [run EXCEPT !.pc = "done", !.timed_out = TRUE,
                          !.out = RunErr(Elapsed(run.command))]
    /\ UNCHANGED runFrame

RunReturn ==
    /\ run.pc = "done"
    /\ run' = RunIdle
    /\ UNCHANGED runFrame

(***************************************************************************)
(* gettreepack (repo_client/src/client/mod.rs 399-482, 1373-1434).  The    *)
(* walk of one manifest gives the tree entries that changed and the root   *)
(* entry of the manifest last; the walks of several manifests are merged   *)
(* in any order; an entry is a hash and the directory it was found in.     *)
(***************************************************************************)
MaxTrees == 2

TreeHashes == {"t1", "t2"}

RootHashes == {"r1", "r2"}

TreeDirs == {"a", "b"}

TreeEntries == [hash : TreeHashes, dirname : TreeDirs]

\* get_root_entry
RootEntry(mfid) == [hash |-> mfid, dirname |-> ""]

\* params.depth.unwrap_or(2 << 16)
fetchdepth(depth) == IF depth = <<>> THEN 2 * 65536 ELSE depth[1]

\* get_changed_manifests_stream: the root entry alone when the depth is 1,
\* else the changed entries the pruners let through and the root entry last
get_changed_manifests_stream(mfid, changed, max_depth) ==
    IF max_depth = 1 THEN <<RootEntry(mfid)>> ELSE changed \o <<RootEntry(mfid)>>

\* the filter of the merged stream lets every entry through
used_hashes_insert_always(used_hashes, h) == TRUE

\* used_hashes.insert(hash): whether the hash is new to the set
used_hashes_insert(used_hashes, h) == h \notin used_hashes

\* the raw manifest bytes the blobstore returns for a node: the bytes the
\* node was computed from unless the stored blob is damaged
get_raw_content(node, damaged) ==
    IF node \in damaged THEN <<"damaged", node>> ELSE <<"manifest", node>>

\* HgBlobNode::new(content, p1, p2).nodeid(): sound bytes hash to their
\* node, damaged bytes to a hash that is no node of the repository
nodeid(bytes) == IF bytes[1] = "manifest" THEN bytes[2] ELSE "h(damaged)"

\* MPath::join_element_opt(basepath, entry.get_name()): None is the root
RepoPath(entry) == IF entry.dirname = "" THEN "RootPath" ELSE entry.dirname

DataCorruption(path, expected, actual) ==
    [type |-> "DataCorruption", path |-> path,
     expected |-> expected, actual |-> actual]

\* fetch_treepack_part_input that checks no hash
fetch_treepack_part_input_unchecked(entry, validate_content, damaged) == RunOk

\* fetch_treepack_part_input that checks the root entry as well
fetch_treepack_part_input_root_too(entry, validate_content, damaged) ==
    IF validate_content
    THEN LET actual == entry.hash
             expected == nodeid(get_raw_content(entry.hash, damaged))
         IN  IF actual = expected
             THEN RunOk
             ELSE RunErr(DataCorruption(RepoPath(entry), expected, actual))
    ELSE RunOk

\* fetch_treepack_part_input: the outcome of the future built for one entry
fetch_treepack_part_input(entry, validate_content, damaged) ==
    IF validate_content
    THEN LET actual == entry.hash
             expected == nodeid(get_raw_content(entry.hash, damaged))
         IN  IF RepoPath(entry) = "RootPath" \/ actual = expected
             THEN RunOk
             ELSE RunErr(DataCorruption(RepoPath(entry), expected, actual))
    ELSE RunOk

GtpIdle ==
    [pc |-> "idle", walks |-> <<>>, used_hashes |-> {}, emitted |-> <<>>,
     mfnodes |-> <<>>, directories |-> <<>>, validate_hash |-> FALSE,
     damaged |-> {}, out |-> RunOk]

\* the walks a request can start: one per manifest asked for
GtpWalks(mfnodes, changes, depth) ==
    [i \in DOMAIN mfnodes |->
        get_changed_manifests_stream(mfnodes[i], changes[i], fetchdepth(depth))]

gtpFrame == <<clientVars, nonWireVars, pull, run, gf, gp, so>>

\* validate_hash is drawn once for the request (rand::random % 100 below
\* hash_validation_percentage); damaged is the blobs the blobstore holds
\* damaged
gettreepack_untimed(directories, mfnodes, changes, depth, validate_hash, damaged) ==
    /\ gtp.pc = "idle"
    /\ Len(changes) = Len(mfnodes)
    /\ IF directories # <<>>
       THEN gtp' = [GtpIdle EXCEPT
                !.pc = "done", !.directories = directories, !.mfnodes = mfnodes,
                !.out = RunErr(err_msg("directories param is not supported"))]
       ELSE gtp' = [GtpIdle EXCEPT
                !.pc = "walking", !.directories = directories, !.mfnodes = mfnodes,
                !.validate_hash = validate_hash, !.damaged = damaged,
                !.walks = GtpWalks(mfnodes, changes, depth)]
    /\ UNCHANGED gtpFrame

\* select_all gives the next entry of one of the walks; the filter drops it
\* when its hash was emitted before; the map builds the part input of an
\* entry that is let through, and its failure ends the stream
GtpNextEntry(i) ==
    /\ gtp.pc = "walking"
    /\ i \in DOMAIN gtp.walks
    /\ gtp.walks[i] # <<>>
    /\ LET entry == Head(gtp.walks[i])
           input == fetch_treepack_part_input(entry, gtp.validate_hash, gtp.damaged)
       IN  IF ~used_hashes_insert(gtp.used_hashes, entry.hash)
           THEN gtp' = [gtp EXCEPT !.walks[i] = Tail(@)]
           ELSE IF input.kind = "Ok"
           THEN gtp' = [gtp EXCEPT
                    !.walks[i] = Tail(@),
                    !.used_hashes = @ \cup {entry.hash},
                    !.emitted = Append(@, entry)]
           ELSE gtp' = [gtp EXCEPT
                    !.pc = "done",
                    !.walks[i] = Tail(@),
                    !.used_hashes = @ \cup {entry.hash},
                    !.out = input]
    /\ UNCHANGED gtpFrame

GtpEnd ==
    /\ gtp.pc = "walking"
    /\ \A i \in DOMAIN gtp.walks : gtp.walks[i] = <<>>
    /\ gtp' = [gtp EXCEPT !.pc = "done", !.out = RunOk]
    /\ UNCHANGED gtpFrame

GtpReturn ==
    /\ gtp.pc = "done"
    /\ gtp' = GtpIdle
    /\ UNCHANGED gtpFrame

(***************************************************************************)
(* getfiles (repo_client/src/client/mod.rs 1009-1099): the requests are    *)
(* mapped to blob lookups and run through .buffered(getfiles_buffer_size). *)
(* A lookup is quick (it has its result when it is started) or slow (it    *)
(* completes at any later time), and it succeeds or fails.                 *)
(***************************************************************************)
getfiles_buffer_size == 100

MaxFiles == 102

\* create_remotefilelog_blob: the blob of a file node
RemotefilelogBlob(node) == <<"blob", node>>

LookupError(node) == [type |-> "ErrorKind", msg |-> <<"lookup failed", node>>]

GfIdle ==
    [pc |-> "idle", requests |-> <<>>, slow |-> {}, failing |-> {}, params |-> <<>>,
     queue |-> <<>>, emitted |-> <<>>, out |-> RunOk]

\* the lookup of a request as it is pushed on the queue
GfStarted(node, slow, failing) ==
    [node |-> node,
     st |-> IF node \in slow THEN "pending"
            ELSE IF node \in failing THEN "failed" ELSE "ready"]

\* a queue without a bound takes all the requests there are
BufferRoomUnbounded(queue) == MaxFiles

\* while self.queue.len() < self.max: how many lookups may be started
BufferRoom(queue) == getfiles_buffer_size - Len(queue)

\* Buffered::poll, first part: lookups are started while there is room
BufferFill(queue, params, slow, failing) ==
    LET k == IF BufferRoom(queue) < Len(params) THEN BufferRoom(queue) ELSE Len(params)
    IN [queue |-> queue \o [i \in 1 .. k |-> GfStarted(params[i], slow, failing)],
        params |-> SubSeq(params, k + 1, Len(params))]

\* the queue gives the first lookup that is ready, whatever its place
QueueNextAnyReady(queue) ==
    IF \E i \in DOMAIN queue : queue[i].st = "ready"
    THEN CHOOSE i \in DOMAIN queue :
             queue[i].st = "ready" /\ \A j \in 1 .. i - 1 : queue[j].st # "ready"
    ELSE 0

\* FuturesOrdered: the queue gives its oldest lookup, when that is ready
QueueNext(queue) == IF queue # <<>> /\ queue[1].st = "ready" THEN 1 ELSE 0

RemoveAt(s, i) == SubSeq(s, 1, i - 1) \o SubSeq(s, i + 1, Len(s))

gfFrame == <<clientVars, nonWireVars, pull, run, gtp, gp, so>>

getfiles(requests, slow, failing) ==
    /\ gf.pc = "idle"
    /\ gf' = [GfIdle EXCEPT !.pc = "streaming", !.requests = requests, !.slow = slow,
                            !.failing = failing, !.params = requests]
    /\ UNCHANGED gfFrame

\* one poll of the buffered stream: fill the queue; a failed lookup ends the
\* stream with its error; else the oldest lookup is emitted if it is ready;
\* the stream ends when the requests and the queue are used up
GfPoll ==
    /\ gf.pc = "streaming"
    /\ LET filled == BufferFill(gf.queue, gf.params, gf.slow, gf.failing)
           failed == {i \in DOMAIN filled.queue : filled.queue[i].st = "failed"}
           next == QueueNext(filled.queue)
       IN IF failed # {}
          THEN \E i \in failed :
                  gf' = [gf EXCEPT !.pc = "done", !.queue = filled.queue,
                                   !.params = filled.params,
                                   !.out = RunErr(process_stream_timeout_error(
                                       StreamTimeoutErrorError(
                                           LookupError(filled.queue[i].node))))]
          ELSE IF next # 0
          THEN gf' = [gf EXCEPT
                  !.queue = RemoveAt(filled.queue, next),
                  !.params = filled.params,
                  !.emitted = Append(@, RemotefilelogBlob(filled.queue[next].node))]
          ELSE IF filled.queue = <<>> /\ filled.params = <<>>
          THEN gf' = [gf EXCEPT !.pc = "done", !.out = RunOk]
          ELSE gf' = [gf EXCEPT !.queue = filled.queue, !.params = filled.params]
    /\ UNCHANGED gfFrame

\* a slow lookup that was started completes
GfLookupCompletes(i) ==
    /\ gf.pc = "streaming"
    /\ i \in DOMAIN gf.queue
    /\ gf.queue[i].st = "pending"
    /\ gf' = [gf EXCEPT !.queue[i].st =
                  IF gf.queue[i].node \in gf.failing THEN "failed" ELSE "ready"]
    /\ UNCHANGED gfFrame

GfReturn ==
    /\ gf.pc = "done"
    /\ gf' = GfIdle
    /\ UNCHANGED gfFrame

(***************************************************************************)
(* getpackv1 (repo_client/src/client/mod.rs 1221-1366): for each request   *)
(* (a path and its file nodes) the history and the contents are fetched;   *)
(* the fetches of the requests complete in any order and are taken in the  *)
(* order of the requests; the parts of each are appended, End last.        *)
(***************************************************************************)
MaxPackFiles == 2

MaxFilenodes == 2

MaxHistory == 2

PackPaths == {"p", "q"}

Filenodes == {"f1", "f2"}

PackRequests == [path : PackPaths, filenodes : SeqsUpTo(Filenodes, MaxFilenodes)]

\* the history entries of some file nodes, in no particular order: none, or
\* the longest history
PackHistories == {<<>>, [i \in 1 .. MaxHistory |-> IF i % 2 = 1 THEN "f2" ELSE "f1"]}

\* get_raw_content
RawContent(path, filenode) == <<"content", path, filenode>>

\* Delta::new_fulltext
NewFulltext(text) == <<"fulltext", text>>

PartHistoryMeta(path, n) ==
    [part |-> "HistoryMeta", path |-> path, entry_count |-> n, node |-> "",
     delta_base |-> NullHash, delta |-> <<>>]

PartHistory(node) ==
    [part |-> "History", path |-> "", entry_count |-> 0, node |-> node,
     delta_base |-> NullHash, delta |-> <<>>]

PartDataMeta(path, n) ==
    [part |-> "DataMeta", path |-> path, entry_count |-> n, node |-> "",
     delta_base |-> NullHash, delta |-> <<>>]

PartData(node, base, delta) ==
    [part |-> "Data", path |-> "", entry_count |-> 0, node |-> node,
     delta_base |-> base, delta |-> delta]

PartEnd ==
    [part |-> "End", path |-> "", entry_count |-> 0, node |-> "",
     delta_base |-> NullHash, delta |-> <<>>]

\* the contents of a request: one (filenode, content) per file node asked for
PackContents(request) ==
    [i \in DOMAIN request.filenodes |->
        [filenode |-> request.filenodes[i],
         content |-> RawContent(request.path, request.filenodes[i])]]

\* the parts of a request with the data before the history
FilePartsDataFirst(path, contents, history) ==
    <<PartDataMeta(path, Len(contents))>>
    \o [i \in DOMAIN contents |->
           PartData(contents[i].filenode, NullHash, NewFulltext(contents[i].content))]
    \o <<PartHistoryMeta(path, Len(history))>>
    \o [i \in DOMAIN history |-> PartHistory(history[i])]

\* the parts of a request: HistoryMeta, the History parts, DataMeta, the
\* Data parts
FileParts(path, contents, history) ==
    <<PartHistoryMeta(path, Len(history))>>
    \o [i \in DOMAIN history |-> PartHistory(history[i])]
    \o <<PartDataMeta(path, Len(contents))>>
    \o [i \in DOMAIN contents |->
           PartData(contents[i].filenode, NullHash, NewFulltext(contents[i].content))]

\* the request parameters still to arrive, requests the ones collected
GpIdle ==
    [pc |-> "idle", params |-> <<>>, params_err |-> FALSE, requests |-> <<>>,
     histories |-> <<>>, failing |-> {}, queue |-> <<>>, parts |-> <<>>,
     out |-> RunOk]

\* what the decoder of the parameter stream fails with
ParamsError == err_msg("malformed getpackv1 parameters")

\* a collect that hands over what it has without waiting for the end
collect_resolves_early(params) == TRUE

\* Stream::collect resolves when the stream it reads has come to its end
collect_resolves(params) == params = <<>>

gpFrame == <<clientVars, nonWireVars, pull, run, gtp, gf, so>>

\* the command is given the stream of its parameters, which ends well or
\* with an error after the parameters it carries
getpackv1(params, params_err, histories, failing) ==
    /\ gp.pc = "idle"
    /\ Len(histories) = Len(params)
    /\ gp' = [GpIdle EXCEPT
            !.pc = "reading", !.params = params, !.params_err = params_err,
            !.histories = histories, !.failing = failing]
    /\ UNCHANGED gpFrame

\* params.collect(): one more parameter is read; at the end of the stream
\* its error ends the response, else a fetch is started for each parameter
GpCollect ==
    /\ gp.pc = "reading"
    /\ IF ~collect_resolves(gp.params)
       THEN gp' = [gp EXCEPT !.params = Tail(@),
                             !.requests = Append(@, Head(gp.params))]
       ELSE IF gp.params = <<>> /\ gp.params_err
       THEN gp' = [gp EXCEPT !.pc = "done",
                             !.out = RunErr(process_stream_timeout_error(
                                         StreamTimeoutErrorError(ParamsError)))]
       ELSE gp' = [gp EXCEPT
                !.pc = "streaming",
                !.queue = [i \in DOMAIN gp.requests |-> [node |-> i, st |-> "pending"]]]
    /\ UNCHANGED gpFrame

\* the history and the contents of one request are there, or a fetch failed
GpFetched(i) ==
    /\ gp.pc = "streaming"
    /\ i \in DOMAIN gp.queue
    /\ gp.queue[i].st = "pending"
    /\ gp' = [gp EXCEPT !.queue[i].st =
                  IF gp.queue[i].node \in gp.failing THEN "failed" ELSE "ready"]
    /\ UNCHANGED gpFrame

\* the stream is polled: a failed fetch ends it with the error; else the
\* parts of the oldest request are appended when its fetch is done; after
\* the last request comes End
GpPoll ==
    /\ gp.pc = "streaming"
    /\ LET failed == {i \in DOMAIN gp.queue : gp.queue[i].st = "failed"}
           next == QueueNext(gp.queue)
       IN IF failed # {}
          THEN \E i \in failed :
                  gp' = [gp EXCEPT !.pc = "done",
                                   !.out = RunErr(process_stream_timeout_error(
                                       StreamTimeoutErrorError(
                                           LookupError(gp.queue[i].node))))]
          ELSE IF next # 0
          THEN LET k == gp.queue[next].node
               IN gp' = [gp EXCEPT
                      !.queue = RemoveAt(@, next),
                      !.parts = @ \o FileParts(gp.requests[k].path,
                                               PackContents(gp.requests[k]),
                                               gp.histories[k])]
          ELSE /\ gp.queue = <<>>
               /\ gp' = [gp EXCEPT !.pc = "done", !.parts = Append(@, PartEnd),
                                   !.out = RunOk]
    /\ UNCHANGED gpFrame

GpReturn ==
    /\ gp.pc = "done"
    /\ gp' = GpIdle
    /\ UNCHANGED gpFrame

(***************************************************************************)
(* stream_out_shallow (repo_client/src/client/mod.rs 1102-1218): the       *)
(* response is a chain of streams: the two lines of the response header,   *)
(* then for each of the two files its header and its blobs, fetched        *)
(* through .buffered(100).  A fetch is quick or slow, and it may fail.     *)
(***************************************************************************)
stream_out_buffer == 100

MaxChunks == 101

\* RevlogStreamingChunks::new(): no sizes and no blobs
RevlogStreamingChunksNew ==
    [index_size |-> 0, data_size |-> 0, index_blobs |-> <<>>, data_blobs |-> <<>>]

\* the fetch of the k-th blob of a file
BlobFuture(file, k) == [file |-> file, k |-> k]

\* the bytes the fetch gives
BlobBytes(fut) == <<"blob", fut.file, ToString(fut.k)>>

\* fetch_changelog: the sizes and the fetches of the blobs in stored order
FetchChangelog(index_size, data_size, n_index, n_data) ==
    [index_size |-> index_size, data_size |-> data_size,
     index_blobs |-> [k \in 1 .. n_index |-> BlobFuture("i", k)],
     data_blobs |-> [k \in 1 .. n_data |-> BlobFuture("d", k)]]

SegItems(items) == [seg |-> "items", items |-> items, futures |-> <<>>]

SegBuffered(futures) == [seg |-> "buffered", items |-> <<>>, futures |-> futures]

\* the file with its header after its blobs
build_file_stream_header_last(name, size, data) ==
    <<SegBuffered(data), SegItems(<< <<name, "\\0", ToString(size), "\n">> >>)>>

\* build_file_stream: the header "name\0size\n", then the blobs buffered
build_file_stream(name, size, data) ==
    <<SegItems(<< <<name, "\\0", ToString(size), "\n">> >>), SegBuffered(data)>>

\* the response of a changelog: "0\n", "2 total\n", and the two files
StreamOutResponse(changelog_chunks) ==
    LET total_size == changelog_chunks.index_size + changelog_chunks.data_size
        file_count == 2
    IN <<SegItems(<< <<"0", "\n">>, <<ToString(file_count), " ", ToString(total_size), "\n">> >>)>>
       \o build_file_stream("00changelog.i", changelog_chunks.index_size,
                            changelog_chunks.index_blobs)
       \o build_file_stream("00changelog.d", changelog_chunks.data_size,
                            changelog_chunks.data_blobs)

SoIdle ==
    [pc |-> "idle", config |-> FALSE, chunks |-> RevlogStreamingChunksNew,
     slow |-> {}, failing |-> {}, segments |-> <<>>, queue |-> <<>>,
     emitted |-> <<>>, out |-> RunOk]

soFrame == <<clientVars, nonWireVars, pull, run, gtp, gf, gp>>

stream_out_shallow(config, fetched, slow, failing) ==
    /\ so.pc = "idle"
    /\ LET changelog == IF config THEN fetched ELSE RevlogStreamingChunksNew
       IN so' = [SoIdle EXCEPT !.pc = "streaming", !.config = config,
                               !.chunks = changelog, !.slow = slow, !.failing = failing,
                               !.segments = StreamOutResponse(changelog)]
    /\ UNCHANGED soFrame

\* the fetch of a blob as it is pushed on the queue
SoStarted(fut, slow, failing) ==
    [node |-> fut,
     st |-> IF fut \in slow THEN "pending"
            ELSE IF fut \in failing THEN "failed" ELSE "ready"]

\* Buffered::poll, first part: fetches are started while the queue holds
\* fewer than 100
SoFill(queue, futures, slow, failing) ==
    LET room == stream_out_buffer - Len(queue)
        k == IF room < Len(futures) THEN room ELSE Len(futures)
    IN [queue |-> queue \o [i \in 1 .. k |-> SoStarted(futures[i], slow, failing)],
        futures |-> SubSeq(futures, k + 1, Len(futures))]

\* one poll of the chain: the stream in front gives its next item, or ends
\* and the next stream of the chain is in front
SoPoll ==
    /\ so.pc = "streaming"
    /\ IF so.segments = <<>>
       THEN so' = [so EXCEPT !.pc = "done", !.out = RunOk]
       ELSE LET front == Head(so.segments)
            IN IF front.seg = "items"
               THEN IF front.items = <<>>
                    THEN so' = [so EXCEPT !.segments = Tail(@)]
                    ELSE so' = [so EXCEPT !.segments[1].items = Tail(@),
                                          !.emitted = Append(@, Head(front.items))]
               ELSE LET filled == SoFill(so.queue, front.futures, so.slow, so.failing)
                        failed == {i \in DOMAIN filled.queue :
                                       filled.queue[i].st = "failed"}
                        next == QueueNext(filled.queue)
                    IN IF failed # {}
                       THEN \E i \in failed :
                               so' = [so EXCEPT
                                   !.pc = "done", !.queue = filled.queue,
                                   !.segments[1].futures = filled.futures,
                                   !.out = RunErr(process_stream_timeout_error(
                                       StreamTimeoutErrorError(
                                           LookupError(BlobBytes(filled.queue[i].node)))))]
                       ELSE IF next # 0
                       THEN so' = [so EXCEPT
                               !.queue = RemoveAt(filled.queue, next),
                               !.segments[1].futures = filled.futures,
                               !.emitted = Append(@, BlobBytes(filled.queue[next].node))]
                       ELSE IF filled.queue = <<>> /\ filled.futures = <<>>
                       THEN so' = [so EXCEPT !.segments = Tail(@)]
                       ELSE so' = [so EXCEPT !.queue = filled.queue,
                                             !.segments[1].futures = filled.futures]
    /\ UNCHANGED soFrame

\* a slow fetch that was started completes
SoFetchCompletes(i) ==
    /\ so.pc = "streaming"
    /\ i \in DOMAIN so.queue
    /\ so.queue[i].st = "pending"
    /\ so' = [so EXCEPT !.queue[i].st =
                  IF so.queue[i].node \in so.failing THEN "failed" ELSE "ready"]
    /\ UNCHANGED soFrame

SoReturn ==
    /\ so.pc = "done"
    /\ so' = SoIdle
    /\ UNCHANGED soFrame

(***************************************************************************)
(* CachelibHandler (common/rust/caching_ext/src/cachelib_utils.rs) over    *)
(* its mock: a map from cache key strings to values behind a lock, and the *)
(* two batch operations that fill it and read it.                          *)
(***************************************************************************)
MaxKeys == 3         \* keys a batch is made of

CachelibKeys == {"k" \o ToString(i) : i \in 1 .. MaxKeys}
CachelibValues == {"v1", "v2"}

\* CachelibKey(key): the tuple struct around the string the cache is keyed by
CachelibKey(key) == <<key>>

\* MockCachelib::new() and a handler with no call in progress
MockIdle ==
    [pc |-> "idle", cache |-> EmptyMap, get_count |-> 0,
     initial |-> EmptyMap, pending |-> {}, query |-> <<>>, keys |-> <<>>,
     fetched |-> EmptyMap, left_to_fetch |-> <<>>]

\* a set_cached that stores nothing
set_cached_ignored(map, key, value) == map

\* set_cached on the mock: insert into the map, replacing what was there
set_cached(map, key, value) == MapInsert(map, key, value)

\* get_cached on the mock: the value under the key, if there is one
get_cached(map, key) ==
    IF key \in DOMAIN map THEN <<map[key]>> ELSE <<>>

\* the pair pushed to left_to_fetch, with the cache key of another key
left_push_mixed(left, key, cache_key) ==
    Append(left, <<key, CachelibKey(cache_key[1] \o "'")>>)

\* left_to_fetch.push((key, cache_key))
left_push(left, key, cache_key) == Append(left, <<key, cache_key>>)

\* fill_multiple_cachelib is called with a map of keys to (value, cache key),
\* the cache key of a key being CachelibKey(key)
fill_multiple_cachelib(initial) ==
    /\ mock.pc = "idle"
    /\ mock' = [mock EXCEPT !.pc = "filling", !.initial = initial,
                            !.pending = DOMAIN initial]
    /\ UNCHANGED nonCachelibVars

\* its loop: the entries of the hash map are stored one by one, in the order
\* the map gives them; after the last the call returns
FillNext ==
    /\ mock.pc = "filling"
    /\ IF mock.pending = {}
       THEN mock' = [mock EXCEPT !.pc = "filled"]
       ELSE \E key \in mock.pending :
               mock' = [mock EXCEPT
                   !.pending = @ \ {key},
                   !.cache = set_cached(@, CachelibKey(key)[1], mock.initial[key])]
    /\ UNCHANGED nonCachelibVars

\* get_multiple_from_cachelib is called with a vector of (key, cache key)
get_multiple_from_cachelib(query) ==
    /\ mock.pc = "filled"
    /\ mock' = [mock EXCEPT
            !.pc = "getting", !.query = query,
            !.keys = [i \in DOMAIN query |-> <<query[i], CachelibKey(query[i])>>]]
    /\ UNCHANGED nonCachelibVars

\* its loop: the next pair is looked up; a hit goes to fetched under the
\* key, a miss to left_to_fetch as the pair it came as
GetNext ==
    /\ mock.pc = "getting"
    /\ IF mock.keys = <<>>
       THEN mock' = [mock EXCEPT !.pc = "done"]
       ELSE LET key == Head(mock.keys)[1]
                cache_key == Head(mock.keys)[2]
                got == get_cached(mock.cache, cache_key[1])
            IN  IF got # <<>>
                THEN mock' = [mock EXCEPT
                        !.keys = Tail(@), !.get_count = @ + 1,
                        !.fetched = MapInsert(@, key, got[1])]
                ELSE mock' = [mock EXCEPT
                        !.keys = Tail(@), !.get_count = @ + 1,
                        !.left_to_fetch = left_push(@, key, cache_key)]
    /\ UNCHANGED nonCachelibVars

\* the test is over; the next one starts with a new mock
MockReturn ==
    /\ mock.pc = "done"
    /\ mock' = MockIdle
    /\ UNCHANGED nonCachelibVars

CachelibUnused == mock = MockIdle

WireUnused == pull = PullIdle /\ run = RunIdle /\ gtp = GtpIdle /\ gf = GfIdle /\ gp = GpIdle /\ so = SoIdle

ClientUnused ==
    /\ changesets = [c \in {} |-> 0]
    /\ bookmarks = [b \in {} |-> 0]
    /\ phases = {}
    /\ blobrepo = {}
    /\ lock = "ReadWrite"
    /\ up = UploadIdle
    /\ unb = UnbIdle
    /\ cmd = CmdIdle

NonStoreUnused == BfsUnused /\ CacheUnused /\ ValidateUnused /\ ClientUnused /\ WireUnused /\ CachelibUnused

NonBfsUnused == StoreUnused /\ CacheUnused /\ ValidateUnused /\ ClientUnused /\ WireUnused /\ CachelibUnused

NonCacheUnused == StoreUnused /\ BfsUnused /\ ValidateUnused /\ ClientUnused /\ WireUnused /\ CachelibUnused

NonValidateUnused == StoreUnused /\ BfsUnused /\ CacheUnused /\ ClientUnused /\ WireUnused /\ CachelibUnused

NonClientUnused == StoreUnused /\ BfsUnused /\ CacheUnused /\ ValidateUnused /\ WireUnused /\ CachelibUnused

NonWireUnused == StoreUnused /\ BfsUnused /\ CacheUnused /\ ValidateUnused /\ CachelibUnused

NonCachelibUnused ==
    StoreUnused /\ BfsUnused /\ CacheUnused /\ ValidateUnused /\ ClientUnused /\ WireUnused

(***************************************************************************)
(* SpecStore: the blob store from construction on.  Every table is empty;  *)
(* values are put and read through Sqlblob, the parts of a read interleave *)
(* with the parts of a put and with replication.                           *)
(***************************************************************************)
ChunkIds == 0 .. (NumChunks([i \in 1 .. MaxLen |-> 1]) - 1)

HashInputs ==
    {DataHashInput(r, k) : r \in RepoIds, k \in Keys}
        \cup {ChunkHashInput(r, k, c) : r \in RepoIds, k \in Keys, c \in ChunkIds}

\* a digest that spreads the byte streams of one key over consecutive values
SpreadHash == [x \in HashInputs |-> IF Len(x) = 2 THEN 0 ELSE x[3] + 1]

StoreIdle ==
    /\ wr = WriterIdle
    /\ rd = ReaderIdle
    /\ firstPut = [k \in Keys |-> NoPut]
    /\ lastPut = [k \in Keys |-> NoPut]

StoreInit ==
    /\ repo_id \in RepoIds
    /\ shard_num \in 1 .. MaxShards
    /\ hash = SpreadHash
    /\ master = [s \in 0 .. (shard_num - 1) |-> EmptyDb]
    /\ replica = [s \in 0 .. (shard_num - 1) |-> EmptyDb]
    /\ StoreIdle
    /\ NonStoreUnused

StoreNext ==
    \/ \E k \in Keys, v \in Values : PutStart(k, v)
    \/ \E i \in ChunkIds : PutChunk(i)
    \/ PutData
    \/ \E s \in DOMAIN master : Replicate(s)
    \/ \E k \in Keys, op \in ReadOps \ {"chunk_get"} : ReadStart(op, k, 0)
    \/ \E k \in Keys, c \in ChunkIds : ReadStart("chunk_get", k, c)
    \/ DataGetReplica
    \/ DataGetMaster
    \/ IsPresentReplica
    \/ IsPresentMaster
    \/ ChunkGetReplica
    \/ ChunkGetMaster
    \/ ReadReturn

SpecStore == StoreInit /\ [][StoreNext]_vars

(***************************************************************************)
(* SpecData: DataSqlStore over a data table in any state.  The row stored  *)
(* for a key, if any, is a Data row or an InChunk row whose header is one  *)
(* of the sample byte strings: well-formed, truncated, of another variant, *)
(* or of a count that is not positive.  Entries are put and read through   *)
(* DataSqlStore directly.                                                  *)
(***************************************************************************)
SampleHeaders ==
    { <<>>,                     \* no bytes
      <<TStop>>,                \* a union with no field set
      <<1 * 16 + TI32>>,        \* field 1: i32, its payload missing
      <<1 * 16 + TI32, 2>>,     \* num_of_chunks(1), the stop byte missing
      <<1 * 16 + TI32, 0, TStop>>,   \* num_of_chunks(0)
      <<1 * 16 + TI32, 1, TStop>>,   \* num_of_chunks(-1)
      <<1 * 16 + TI32, 2, TStop>>,   \* num_of_chunks(1)
      <<1 * 16 + TI32, 4, TStop>>,   \* num_of_chunks(2)
      <<2 * 16 + TI32, 2, TStop>>,   \* field 2: i32
      <<1 * 16 + TI64, 2, TStop>>,   \* field 1: i64
      <<1 * 16 + TI32, 2, 1 * 16 + TI32, 2, TStop>> }   \* two fields

SampleRows(k) ==
    {DataRow(r, k, DataTypeData, <<1>>) : r \in RepoIds}
        \cup {DataRow(r, k, DataTypeInChunk, h) : r \in RepoIds, h \in SampleHeaders}

\* the entries handed to DataSqlStore::put
SampleEntries ==
    {EntryData(<<1>>), EntryInChunk(USize(0, 1)), EntryInChunk(USize(0, 2)),
     EntryInChunk(USize(0, I32Max)),    \* 2^31 - 1
     EntryInChunk(USize(1, 0)),         \* 2^31
     EntryInChunk(USize(2, 0)),         \* 2^32
     EntryInChunk(USize(2, 1))}         \* 2^32 + 1

DataInit ==
    /\ repo_id \in RepoIds
    /\ shard_num \in 1 .. MaxShards
    /\ hash = SpreadHash
    /\ \E stored \in SUBSET Keys :
         \E row \in [stored -> UNION {SampleRows(k) : k \in Keys}] :
            /\ \A k \in stored : row[k] \in SampleRows(k)
            /\ master = [s \in 0 .. (shard_num - 1) |->
                            [data |-> {row[k] : k \in {x \in stored : DataShard(x) = s + 1}},
                             chunk |-> {}]]
    /\ replica = [s \in 0 .. (shard_num - 1) |-> EmptyDb]
    /\ StoreIdle
    /\ NonStoreUnused

DataNext ==
    \/ \E k \in Keys, e \in SampleEntries : RawPutStart(k, e)
    \/ PutData
    \/ \E s \in DOMAIN master : Replicate(s)
    \/ \E k \in Keys, op \in {"data_get", "is_present"} : ReadStart(op, k, 0)
    \/ DataGetReplica
    \/ DataGetMaster
    \/ IsPresentReplica
    \/ IsPresentMaster
    \/ ReadReturn

SpecData == DataInit /\ [][DataNext]_vars

(***************************************************************************)
(* SpecShard: the store constructed with any shard count and over any      *)
(* digest function.                                                        *)
(***************************************************************************)
HashValues == 0 .. MaxShards

ShardValues == {v \in Values : v[1] = 1}

ShardInit ==
    /\ repo_id \in RepoIds
    /\ shard_num \in 1 .. MaxShards
    /\ hash \in [HashInputs -> HashValues]
    /\ master = [s \in 0 .. (shard_num - 1) |-> EmptyDb]
    /\ replica = [s \in 0 .. (shard_num - 1) |-> EmptyDb]
    /\ StoreIdle
    /\ NonStoreUnused

ShardNext ==
    \/ \E k \in Keys, v \in ShardValues : PutStart(k, v)
    \/ \E i \in ChunkIds : PutChunk(i)
    \/ PutData
    \/ \E k \in Keys, op \in ReadOps \ {"chunk_get"} : ReadStart(op, k, 0)
    \/ \E k \in Keys, c \in ChunkIds : ReadStart("chunk_get", k, c)
    \/ DataGetReplica
    \/ DataGetMaster
    \/ IsPresentReplica
    \/ IsPresentMaster
    \/ ChunkGetReplica
    \/ ChunkGetMaster
    \/ ReadReturn

SpecShard == ShardInit /\ [][ShardNext]_vars

(***************************************************************************)
(* SpecBFS: reachability queries over every DAG of MaxNodes changesets     *)
(* with at most MaxParents parents each, and with at most one fetch of the *)
(* ChangesetFetcher failing.                                               *)
(***************************************************************************)
BfsInit ==
    /\ cs_parents \in Graphs
    /\ broken \in {{}} \cup {{f} : f \in Fetches}
    /\ gens = [n \in Nodes |-> GenerationOf(n)]
    /\ bfs = BfsIdle
    /\ NonBfsUnused

BfsNext ==
    \/ \E src \in Nodes, dst \in Nodes : QueryReachability(src, dst)
    \/ QueryCheckSrc
    \/ QueryFetchDstGen
    \/ QueryLoop
    \/ QueryReturn

SpecBFS == BfsInit /\ [][BfsNext]_vars

(***************************************************************************)
(* SpecBFSCyclic: queries over parent graphs that may have cycles among    *)
(* the first three changesets, with any stored generation numbers and no   *)
(* failing fetch.  A query that has begun is driven to its end.            *)
(***************************************************************************)
CyclicNodes == {n \in Nodes : n <= 3}

CyclicGraphs ==
    {g \in [Nodes -> SUBSET CyclicNodes] :
        \A n \in Nodes : Cardinality(g[n]) <= MaxParents /\ (n \notin CyclicNodes => g[n] = {})}

StoredGenerations == {[n \in Nodes |-> 1], [n \in Nodes |-> 1 + (n % 2)]}

BfsCyclicInit ==
    /\ cs_parents \in CyclicGraphs
    /\ broken = {}
    /\ gens \in StoredGenerations
    /\ bfs = BfsIdle
    /\ NonBfsUnused

SpecBFSCyclic ==
    /\ BfsCyclicInit
    /\ [][BfsNext]_vars
    /\ WF_vars(QueryCheckSrc)
    /\ WF_vars(QueryFetchDstGen)
    /\ WF_vars(QueryLoop)

(***************************************************************************)
(* SpecCache: callers materialize entries, with and without the cache.     *)
(* The content behind h1 is a file, a tree or unavailable; h2 is a tree.   *)
(***************************************************************************)
CacheInit ==
    /\ content \in {c \in [Hashes -> ContentSamples] : c["h2"] = TreeContent(<<1, 2>>)}
    /\ cache = [k \in CacheKeys |-> NoneOf]
    /\ calls = [c \in Callers |-> CallIdle]
    /\ invoked = [k \in CacheKeys |-> 0]
    /\ delivered = [k \in CacheKeys |-> {}]
    /\ via = [c \in Callers |-> "none"]
    /\ NonCacheUnused

CacheNext ==
    \/ \E c \in Callers, r \in RepoIds, e \in HgEntries, with_cache \in BOOLEAN :
          MaterializeFuture(c, r, e, with_cache)
    \/ \E c \in Callers : FillResolve(c)
    \/ \E c \in Callers : DirectResolve(c)
    \/ \E c \in Callers : CallReturn(c)
    \/ \E k \in CacheKeys : Evict(k)

SpecCache == CacheInit /\ [][CacheNext]_vars

(***************************************************************************)
(* SpecValidate: a fresh ValidateNodeStream polled over a wrapped stream   *)
(* that may answer anything: any hash with any generation, in any order.   *)
(***************************************************************************)
ValidateInit ==
    /\ vns = ValidateNodeStreamNew
    /\ emitted = <<>>
    /\ wrapped = <<>>
    /\ NonValidateUnused

ValidateNext == Poll

SpecValidate == ValidateInit /\ [][ValidateNext]_vars

(***************************************************************************)
(* SpecUpload: upload_blobs over any stream of at most MaxBlobs blobs,     *)
(* each with any node hash and any outcome of its upload.                  *)
(***************************************************************************)
UploadInit ==
    /\ ClientUnused
    /\ NonClientUnused

UploadNext ==
    \/ up.pc = "idle" /\ \E stream \in BlobStreams : UploadBlobs(stream)
    \/ UploadPoll

SpecUpload == UploadInit /\ [][UploadNext]_vars

(***************************************************************************)
(* SpecUnbundle: one unbundle of a push that moves master from changeset 1 *)
(* to changeset 2, over a repository with any lock status.                 *)
(***************************************************************************)
UnbundleInit ==
    /\ changesets = [c \in {1} |-> 0]
    /\ bookmarks = [b \in {"master"} |-> 1]
    /\ phases = {1}
    /\ blobrepo \in {{}, {"n1"}}
    /\ lock \in LockFetches
    /\ up = UploadIdle
    /\ unb = UnbIdle
    /\ cmd = CmdIdle
    /\ NonClientUnused

UnbundleNext ==
    \/ unb.pc = "idle" /\ \E push \in Pushes : Unbundle(push)
    \/ ReadonlyFetched
    \/ Resolve
    \/ UploadPoll
    \/ UploadFinished
    \/ VerifyChangesets
    \/ UpdateBookmarks
    \/ UpdatePhases
    \/ UnbundleTimeout

SpecUnbundle == UnbundleInit /\ [][UnbundleNext]_vars

(***************************************************************************)
(* SpecBetween: between over every first-parent forest of MaxCommits       *)
(* changesets with lists of one or two pairs, and over a linear chain of   *)
(* 20 changesets with one pair.  Tops and bottoms range over the           *)
(* changesets, the null hash and one hash the repository does not hold.    *)
(***************************************************************************)
SmallForests == UNION {[1 .. n -> 0 .. n] : n \in 0 .. MaxCommits}

FirstParentForests == {g \in SmallForests : \A c \in DOMAIN g : g[c] < c}

LinearChain == [c \in 1 .. 20 |-> c - 1]

HashesOf(g) == 0 .. (Cardinality(DOMAIN g) + 1)

PairsOf(g) == HashesOf(g) \X HashesOf(g)

PairListsOf(g) ==
    IF g = LinearChain THEN {<<p>> : p \in PairsOf(g)}
    ELSE {<<>>} \cup {<<p>> : p \in PairsOf(g)} \cup {<<p, q>> : p \in PairsOf(g), q \in PairsOf(g)}

BetweenInit ==
    /\ changesets \in FirstParentForests \cup {LinearChain}
    /\ bookmarks = [b \in {} |-> 0]
    /\ phases = {}
    /\ blobrepo = {}
    /\ lock = "ReadWrite"
    /\ up = UploadIdle
    /\ unb = UnbIdle
    /\ cmd = CmdIdle
    /\ NonClientUnused

BetweenNext ==
    \/ cmd.pc = "idle" /\ \E pairs \in PairListsOf(changesets) : Between(pairs)
    \/ BetweenPoll
    \/ CommandTimeout

SpecBetween == BetweenInit /\ [][BetweenNext]_vars

(***************************************************************************)
(* SpecLookup: lookup of every key over linear repositories of up to       *)
(* MaxCommits changesets with any bookmarks; a bookmark may be named like  *)
(* a hash.                                                                 *)
(***************************************************************************)
LinearRepos == {[c \in 1 .. n |-> c - 1] : n \in 0 .. MaxCommits}

BookmarkNames == NameKeys \cup {<<"hex", 1>>, <<"hex", MaxCommits + 1>>}

BookmarkMaps == UNION {[names -> 1 .. MaxCommits] : names \in SUBSET BookmarkNames}

LookupInit ==
    /\ changesets \in LinearRepos
    /\ bookmarks \in BookmarkMaps
    /\ phases = {}
    /\ blobrepo = {}
    /\ lock = "ReadWrite"
    /\ up = UploadIdle
    /\ unb = UnbIdle
    /\ cmd = CmdIdle
    /\ NonClientUnused

LookupNext ==
    \/ \E key \in LookupKeys : Lookup(key)
    \/ LookupInvalid
    \/ LookupChangesetExists
    \/ LookupBookmark
    \/ CommandTimeout

SpecLookup == LookupInit /\ [][LookupNext]_vars

(***************************************************************************)
(* SpecKnown: known and knownnodes over linear repositories whose Public   *)
(* changesets are the oldest ones.  A list of nodes is asked for with one  *)
(* command and then with the other.                                        *)
(***************************************************************************)
NodeLists == SeqsUpTo(1 .. (MaxCommits + 1), MaxCommits)

KnownInit ==
    /\ changesets \in LinearRepos
    /\ phases \in {1 .. m : m \in 0 .. Cardinality(DOMAIN changesets)}
    /\ bookmarks = [b \in {} |-> 0]
    /\ blobrepo = {}
    /\ lock = "ReadWrite"
    /\ up = UploadIdle
    /\ unb = UnbIdle
    /\ cmd = CmdIdle
    /\ NonClientUnused

KnownNext ==
    \/ /\ cmd.pc = "idle"
       /\ \E op \in {"known", "knownnodes"} \ {cmd.prev.op} :
             \E nodes \in IF cmd.prev.op = "" THEN NodeLists ELSE {cmd.nodes} :
                KnownCall(op, nodes)
    \/ KnownMapped
    \/ KnownPhases
    \/ CommandTimeout
    \/ CommandReturn

SpecKnown == KnownInit /\ [][KnownNext]_vars

(***************************************************************************)
(* SpecPull: a client pulls (hello, bookmarks, discovery, getbundle) while *)
(* other clients push changesets and move bookmarks.                       *)
(***************************************************************************)
PullBookmarks == {"master", "stable"}

PullInit ==
    /\ changesets \in {[c \in 1 .. n |-> c - 1] : n \in 1 .. 2}
    /\ bookmarks \in [PullBookmarks -> DOMAIN changesets]
    /\ phases = {}
    /\ blobrepo = {}
    /\ lock = "ReadWrite"
    /\ up = UploadIdle
    /\ unb = UnbIdle
    /\ cmd = CmdIdle
    /\ WireUnused
    /\ NonWireUnused

PullNext ==
    \/ hello
    \/ listkeys
    \/ heads
    \/ getbundle
    \/ \E b \in PullBookmarks : PushMovesBookmark(b)
    \/ \E b \in PullBookmarks, c \in 1 .. MaxCommits : PushkeyMovesBookmark(b, c)

SpecPull == PullInit /\ [][PullNext]_vars

(***************************************************************************)
(* SpecTimeout: one command after another runs under its timeout; the work *)
(* of a command needs some time or hangs, and succeeds or fails.           *)
(***************************************************************************)
TimeoutInit == ClientUnused /\ WireUnused /\ NonWireUnused

TimeoutNext ==
    \/ run.pc = "idle" /\ \E command \in Commands, namespace \in Namespaces,
                             need \in Needs, hangs \in BOOLEAN, fails \in BOOLEAN :
           RunCommand(command, namespace, need, hangs, fails)
    \/ Tick
    \/ WorkCompletes
    \/ TimeoutFires
    \/ RunReturn

SpecTimeout == TimeoutInit /\ [][TimeoutNext]_vars

(***************************************************************************)
(* SpecGettreepack: gettreepack requests of up to two manifests, whose     *)
(* walks share entries and are merged in every order.                      *)
(***************************************************************************)
MaxMfnodes == 2

GtpChanges == SeqsUpTo(TreeEntries, MaxTrees)

\* the damaged blobs tried: none, or one tree and one root
GtpDamaged == {{}, {"t1", "r1"}}

GettreepackInit == ClientUnused /\ WireUnused /\ NonWireUnused

GettreepackNext ==
    \/ gtp.pc = "idle" /\ \E directories \in {<<>>, <<"a">>},
                             mfnodes \in SeqsUpTo(RootHashes, MaxMfnodes),
                             depth \in {<<>>, <<1>>},
                             validate_hash \in BOOLEAN,
                             damaged \in GtpDamaged :
           \E changes \in [DOMAIN mfnodes -> GtpChanges] :
               gettreepack_untimed(directories, mfnodes, changes, depth,
                                   validate_hash, damaged)
    \/ \E i \in 1 .. MaxMfnodes : GtpNextEntry(i)
    \/ GtpEnd
    \/ GtpReturn

SpecGettreepack == GettreepackInit /\ [][GettreepackNext]_vars

(***************************************************************************)
(* SpecGetfiles: getfiles requests of a few files and of more files than   *)
(* the buffer holds; the first lookups are quick or slow, some fail.       *)
(***************************************************************************)
GetfilesInit == ClientUnused /\ WireUnused /\ NonWireUnused

GetfilesNext ==
    \/ gf.pc = "idle" /\ \E n \in {3, MaxFiles}, slow \in SUBSET {1, 2},
                            failing \in SUBSET {2, 3} :
           getfiles([i \in 1 .. n |-> i], slow, failing)
    \/ GfPoll
    \/ \E i \in 1 .. 2 : GfLookupCompletes(i)
    \/ GfReturn

SpecGetfiles == GetfilesInit /\ [][GetfilesNext]_vars

(***************************************************************************)
(* SpecGetpack: getpackv1 requests of up to two paths with up to two file  *)
(* nodes each; the fetches complete in any order, some fail.               *)
(***************************************************************************)
GetpackInit == ClientUnused /\ WireUnused /\ NonWireUnused

GetpackNext ==
    \/ gp.pc = "idle" /\ \E params \in SeqsUpTo(PackRequests, MaxPackFiles),
                            params_err \in BOOLEAN,
                            failing \in {{}, {2}} :
           \E histories \in [DOMAIN params -> PackHistories] :
               getpackv1(params, params_err, histories, failing)
    \/ GpCollect
    \/ \E i \in 1 .. MaxPackFiles : GpFetched(i)
    \/ GpPoll
    \/ GpReturn

SpecGetpack == GetpackInit /\ [][GetpackNext]_vars

(***************************************************************************)
(* SpecStreamOut: stream_out_shallow with and without a streaming clone    *)
(* configuration; a file has no blob, a few, or more than the buffer holds.*)
(***************************************************************************)
SoSlow == {BlobFuture(f, k) : f \in {"i", "d"}, k \in {1}}

SoFailing == {BlobFuture("i", 2), BlobFuture("d", 2)}

StreamOutInit == ClientUnused /\ WireUnused /\ NonWireUnused

StreamOutNext ==
    \/ so.pc = "idle" /\ \E config \in BOOLEAN, index_size \in {0, 6}, data_size \in {9},
                            n_index \in {0, 3, MaxChunks}, n_data \in {0, 3},
                            slow \in SUBSET SoSlow, failing \in {{}} \cup {{f} : f \in SoFailing} :
           stream_out_shallow(config,
                              FetchChangelog(index_size, data_size, n_index, n_data),
                              slow, failing)
    \/ SoPoll
    \/ \E i \in 1 .. 2 : SoFetchCompletes(i)
    \/ SoReturn

SpecStreamOut == StreamOutInit /\ [][StreamOutNext]_vars

(***************************************************************************)
(* SpecCachelib: the round trip of the mock: any map of keys to values is  *)
(* filled into a new mock, then any vector of distinct keys is queried.    *)
(***************************************************************************)
\* the maps from some of the keys to values
CachelibMaps == UNION {[S -> CachelibValues] : S \in SUBSET CachelibKeys}

\* the vectors of distinct keys
CachelibQueries ==
    {q \in SeqsUpTo(CachelibKeys, MaxKeys) :
        \A i, j \in DOMAIN q : q[i] = q[j] => i = j}

CachelibInit == mock = MockIdle /\ NonCachelibUnused

CachelibNext ==
    \/ mock.pc = "idle" /\ \E initial \in CachelibMaps : fill_multiple_cachelib(initial)
    \/ FillNext
    \/ mock.pc = "filled" /\ \E query \in CachelibQueries : get_multiple_from_cachelib(query)
    \/ GetNext
    \/ MockReturn

SpecCachelib == CachelibInit /\ [][CachelibNext]_vars

(***************************************************************************)
(* Properties of the blob store.                                           *)
(***************************************************************************)
\* what DataSqlStore::get hands back for a stored entry
ResultOfEntry(entry) ==
    IF entry.kind = "Data" THEN ResData(entry.bytes) ELSE ResInChunk(entry.n)

DataGetDone == rd.op = "data_get" /\ rd.pc = "done"

\* the replica of the key's shard holds no row of the key read: full lag
ReplicaLags == SelectData(replica[DataShard(rd.key) - 1], repo_id, rd.key) = {}

\* C1, as the spec states it: for every (key, value) that has been put, a
\* later get(key) returns exactly that value, whatever the replica's lag.
C1_EveryPutValueReturned ==
    (DataGetDone /\ rd.after /\ rd.quiet)
        => rd.out = ResultOfEntry(lastPut[rd.key].entry)

\* C1, amended: a get(key) issued after a put of the key has completed
\* returns exactly the value of the first put completed for the key,
\* whatever the replica's lag.
C1_FirstPutValueReturned ==
    (DataGetDone /\ rd.after)
        => rd.out = ResultOfEntry(firstPut[rd.key].entry)

C1_Witness ==
    /\ DataGetDone /\ rd.after /\ ReplicaLags
    /\ lastPut[rd.key] # firstPut[rd.key]
    /\ rd.out = ResData(firstPut[rd.key].v)

RowsKept(old, new) == old.data \subseteq new.data /\ old.chunk \subseteq new.chunk

\* C4: after put(k, v1) has completed, a put(k, v2) with v2 # v1 completes
\* without error and every later get(k) still returns v1; no put changes or
\* removes a row that is already stored.
C4_FirstWriteWins ==
    /\ [](wr.pc \notin {"failed", "panic"})
    /\ []((DataGetDone /\ rd.after /\ lastPut[rd.key].v # firstPut[rd.key].v)
            => rd.out = ResultOfEntry(firstPut[rd.key].entry))
    /\ [][\A s \in DOMAIN master : RowsKept(master[s], master'[s])]_vars

C4_Witness ==
    /\ DataGetDone /\ rd.after /\ rd.quiet
    /\ lastPut[rd.key].v # firstPut[rd.key].v
    /\ Len(lastPut[rd.key].v) = Len(firstPut[rd.key].v)
    /\ rd.out = ResultOfEntry(firstPut[rd.key].entry)

\* C5: DataSqlStore::get queries the replica of the key's shard first and
\* the master of the same shard only when the replica returned no row; it
\* returns None only when neither holds a row, so a row on the master that
\* is not yet replicated is still returned.
C5_ReplicaThenMaster ==
    (rd.op = "data_get" /\ rd.pc \in {"master", "done"})
        => LET idx == DataShard(rd.key) - 1
           IN  /\ Len(rd.log) \in {1, 2}
               /\ rd.log[1].conn = Conn("replica", idx)
               /\ rd.pc = "master" => Len(rd.log) = 1 /\ ~rd.log[1].found
               /\ Len(rd.log) = 2 =>
                     ~rd.log[1].found /\ rd.log[2].conn = Conn("master", idx)
               /\ (rd.pc = "done" /\ ~rd.log[1].found) => Len(rd.log) = 2
               /\ (rd.pc = "done" /\ rd.out = ResNone) =>
                     Len(rd.log) = 2 /\ ~rd.log[2].found
               /\ (rd.pc = "done" /\ rd.log[Len(rd.log)].found) => rd.out # ResNone
               /\ (rd.pc = "done" /\ rd.after) => rd.out # ResNone

C5_Witness ==
    /\ DataGetDone /\ rd.after /\ ReplicaLags
    /\ Len(rd.log) = 2 /\ rd.log[2].found
    /\ rd.out.kind \in {"Data", "InChunk"}

\* the master rows of key id, chunk i, over all shards
ChunkRowsOf(id, i) ==
    SelectChunk(master[ChunkShard(id, i) - 1], repo_id, id, i)

RECURSIVE ConcatChunks(_, _, _)
ConcatChunks(id, i, n) ==
    IF i >= n THEN <<>>
    ELSE FirstRow(ChunkRowsOf(id, i)).value \o ConcatChunks(id, i + 1, n)

InChunkRows ==
    UNION {{r \in master[s].data \cup replica[s].data : r.type = DataTypeInChunk} :
              s \in DOMAIN master}

C8_MissingChunkIsError ==
    /\ (rd.op = "chunk_get" /\ rd.pc = "done")
          => /\ (Len(rd.log) = 2 /\ ~rd.log[2].found) => rd.out = ResErr(ErrMissingChunk)
             /\ rd.out.kind \in {"Data", ErrMissingChunk}
             /\ rd.out.kind = "Data" =>
                   /\ rd.log[Len(rd.log)].found
                   /\ \E r \in ChunkRowsOf(rd.key, rd.chunk_id) : r.value = rd.out.bytes
    /\ (DataGetDone /\ Len(rd.log) = 2 /\ ~rd.log[2].found) => rd.out = ResNone

C8_Witness ==
    /\ rd.op = "chunk_get" /\ rd.pc = "done"
    /\ Len(rd.log) = 2 /\ ~rd.log[1].found /\ ~rd.log[2].found
    /\ rd.log[1].conn.tier = "replica" /\ rd.log[2].conn.tier = "master"
    /\ rd.out = ResErr(ErrMissingChunk)
    /\ firstPut[rd.key].put

MasterRowsOf(k) == SelectData(master[DataShard(k) - 1], repo_id, k)

\* C7: DataSqlStore::get returns an error, never None or a value, when the
\* row found for the key has type InChunk and its header fails to
\* deserialize, decodes to a variant other than num_of_chunks, or encodes a
\* chunk count that is not positive.
C7_CorruptHeaderIsError ==
    (DataGetDone /\ Len(rd.log) > 0 /\ rd.log[Len(rd.log)].found)
        => LET row == FirstRow(MasterRowsOf(rd.key))
               d == Deserialize(row.value)
           IN  row.type = DataTypeInChunk =>
                  /\ d.kind = "Err" => rd.out = ResErr(ErrDeserialize)
                  /\ d.kind = "UnknownField" => rd.out = ResErr(ErrDeserialize)
                  /\ (d.kind = "num_of_chunks" /\ d.n <= 0) =>
                        rd.out = ResErr(ErrInvalidCount)

C7_Witness ==
    /\ DataGetDone /\ Len(rd.log) = 1 /\ rd.log[1].found
    /\ \E row \in MasterRowsOf(rd.key) :
          row.type = DataTypeInChunk /\ Deserialize(row.value).kind = "UnknownField"
    /\ rd.out = ResErr(ErrDeserialize)

\* the shard a finished low-level read had to address
ShardRead ==
    IF rd.op = "chunk_get" THEN ChunkShard(rd.key, rd.chunk_id) ELSE DataShard(rd.key)

\* C9: shard is a function of (repo_id, key) alone, for chunks of (repo_id,
\* key, chunk_id) alone, with a result in [1, N]; get, put and is_present of
\* a key address the same shard and never index a connection outside 0..N-1.
C9_ShardInRange ==
    /\ \A k \in Keys :
          /\ DataShard(k) \in 1 .. shard_num
          /\ \A c \in ChunkIds : ChunkShard(k, c) \in 1 .. shard_num
    /\ wr.pc # "panic"
    /\ rd.out # ResErr(ErrPanic)
    /\ \A s \in DOMAIN master :
          /\ \A r \in master[s].data : s = DataShard(r.id) - 1
          /\ \A r \in master[s].chunk : s = ChunkShard(r.id, r.chunk_id) - 1
    /\ rd.op \in {"data_get", "is_present", "chunk_get"} =>
          \A i \in 1 .. Len(rd.log) :
              rd.log[i].conn.idx = ShardRead - 1 /\ rd.log[i].conn.idx \in 0 .. (shard_num - 1)
    /\ (rd.op \in {"data_get", "is_present", "chunk_get"} /\ rd.pc = "done") => Len(rd.log) > 0

C9_Witness ==
    /\ rd.op = "is_present" /\ rd.pc = "done" /\ rd.out = ResBool(TRUE)
    /\ shard_num = MaxShards
    /\ hash[DataHashInput(repo_id, rd.key)] = shard_num
    /\ rd.log[Len(rd.log)].conn = Conn("master", 0)
    /\ MasterRowsOf(rd.key) # {}

(***************************************************************************)
(* Properties of the reachability query.                                   *)
(***************************************************************************)
BfsDone == bfs.pc = "done"

\* C2: query_reachability(src, dst) is true iff dst is an ancestor of src or
\* src itself, in every DAG with 0 to 2 parents per changeset.
C2_ReachabilityIsAncestry ==
    BfsDone =>
        /\ bfs.out.kind = "Ok" => bfs.out.val = (bfs.dst \in AncestorsOrSelf(bfs.src))
        /\ broken = {} => bfs.out.kind = "Ok"

C2_Witness ==
    /\ BfsDone /\ bfs.out = BfsOk(TRUE)
    /\ Cardinality(cs_parents[bfs.src]) = MaxParents
    /\ bfs.dst \notin cs_parents[bfs.src] \cup {bfs.src}
    /\ cs_parents[bfs.dst] # {}

\* the fetches a processed layer issues
LayerFetches(layer) ==
    {<<"parents", n>> : n \in layer}
        \cup {<<"generation", p>> : p \in UNION {cs_parents[n] : n \in layer}}

\* C10: query_reachability ends with an error, never with false, when src
\* does not exist, when the generation of dst cannot be fetched, or when a
\* parent fetch or generation fetch inside a BFS layer fails; the existence
\* of src is checked before the generation of dst is looked up.
C10_FetchFailureIsError ==
    /\ (BfsDone /\ <<"generation", bfs.src>> \in broken)
          => bfs.out = BfsErr(ErrNodeNotFound) /\ Len(bfs.log) = 1
    /\ (BfsDone /\ <<"generation", bfs.dst>> \in broken) => bfs.out.kind = "Err"
    /\ (BfsDone /\ \E i \in 1 .. Len(bfs.log) :
            bfs.log[i].fn = "process_bfs_layer"
                /\ LayerFetches(bfs.log[i].nodes) \cap broken # {})
          => bfs.out.kind = "Err"
    /\ Len(bfs.log) >= 1 => bfs.log[1] = Called("check_if_node_exists", {bfs.src})
    /\ \A i \in 1 .. Len(bfs.log) :
          bfs.log[i].fn = "fetch_generation" => i = 2 /\ bfs.log[i].nodes = {bfs.dst}

C10_Witness ==
    /\ BfsDone /\ bfs.out = BfsErr(ErrParentsFetchFailed)
    /\ Len(bfs.log) >= 4
    /\ bfs.dst \in AncestorsOrSelf(bfs.src)

(***************************************************************************)
(* Properties of the entry cache.                                          *)
(***************************************************************************)
\* C3: for any cache key k, across the concurrent get_or_fill(k, f) calls
\* that materialize_future issues for the same repo and hash, f is invoked
\* at most once and every caller receives the same result.
C3_FillOnce ==
    \A k \in CacheKeys :
        /\ invoked[k] <= 1
        /\ Cardinality(Filling(k)) <= 1
        /\ Cardinality(delivered[k]) <= 1

C3_Witness ==
    \E c \in Callers, d \in Callers :
        /\ calls[c].pc = "done" /\ calls[d].pc = "done"
        /\ calls[c].key = calls[d].key
        /\ calls[c].entry.name # calls[d].entry.name
        /\ calls[c].out.kind = "Ok" /\ calls[d].out = calls[c].out
        /\ invoked[calls[c].key] = 1
        /\ delivered[calls[c].key] = {calls[c].out}

\* caller c issues a call that goes through get_cached_or_fill in this step
IssuedCached(c) == calls[c].pc = "idle" /\ via'[c] \in {"hit", "fill", "wait"}

\* the fill that caller c runs resolves in this step
FillDone(c) == calls[c].pc = "filling" /\ calls'[c].pc = "done"

\* caller c holds the error of a fill of its key
HoldsFillError(c) ==
    calls[c].pc = "done" /\ via[c] \in {"fill", "wait"} /\ calls[c].out.kind = "Err"

\* C12: when the compute of a fill fails, the error is returned to every
\* caller waiting on the key and the cache holds no entry for the key
\* afterwards; a later call for the key runs compute again (it starts a
\* fill, or joins one that has been started since).
C12_FailedFillNotCached ==
    [][\A c \in Callers :
          /\ (FillDone(c) /\ calls'[c].out.kind = "Err") =>
                /\ ~cache'[calls[c].key].some
                /\ \A d \in InFlight(calls[c].key) :
                      calls'[d].pc = "done" /\ calls'[d].out = calls'[c].out
          /\ \A d \in Callers :
                (HoldsFillError(c) /\ IssuedCached(d) /\ calls'[d].key = calls[c].key) =>
                    \/ calls'[d].pc = "filling" /\ invoked'[calls[c].key] >= 1
                    \/ calls'[d].pc = "waiting" /\ Filling(calls[c].key) # {}]_vars

C12_Witness ==
    \E c \in Callers, d \in Callers :
        /\ HoldsFillError(c) /\ via[c] = "fill"
        /\ HoldsFillError(d) /\ via[d] = "wait"
        /\ calls[d].key = calls[c].key /\ calls[d].out = calls[c].out
        /\ ~cache[calls[c].key].some

\* C13: a call whose key is present in the cache returns the cached value
\* without running compute; a call whose key is absent runs compute (or
\* awaits the compute in flight for the key), and a compute that succeeds is
\* stored under the key and returned, so that a call following it with no
\* eviction in between is served from the cache.
C13_GetOrFill ==
    [][\A c \in Callers :
          /\ (IssuedCached(c) /\ cache[calls'[c].key].some) =>
                /\ calls'[c].pc = "done"
                /\ calls'[c].out = CallOk(cache[calls'[c].key].val)
                /\ invoked'[calls'[c].key] = InvokedAtIssue(calls'[c].key)
                /\ cache' = cache
          /\ (IssuedCached(c) /\ ~cache[calls'[c].key].some) =>
                \/ /\ calls'[c].pc = "filling"
                   /\ invoked'[calls'[c].key] = InvokedAtIssue(calls'[c].key) + 1
                \/ calls'[c].pc = "waiting" /\ Filling(calls'[c].key) # {}
          /\ (FillDone(c) /\ calls'[c].out.kind = "Ok") =>
                /\ calls'[c].out = EntryFuture(calls[c])
                /\ cache'[calls[c].key] = SomeOf(calls'[c].out.val)]_vars

C13_Witness ==
    \E c \in Callers, d \in Callers :
        /\ calls[c].pc = "done" /\ via[c] = "fill" /\ calls[c].out.kind = "Ok"
        /\ calls[d].pc = "done" /\ via[d] = "hit"
        /\ calls[d].key = calls[c].key /\ calls[d].out = calls[c].out
        /\ cache[calls[c].key] = SomeOf(calls[c].out.val)
        /\ invoked[calls[c].key] = 0

(***************************************************************************)
(* Properties of the validated revset stream.                              *)
(***************************************************************************)
\* C11: whatever the wrapped stream yields, in every prefix of what a
\* ValidateNodeStream has emitted the generation numbers never increase
\* (equal generations are allowed) and no changeset id appears twice.
C11_EmittedValidated ==
    \A i \in 1 .. Len(emitted) : \A j \in 1 .. Len(emitted) :
        i < j => /\ emitted[i].hash # emitted[j].hash
                 /\ emitted[i].gen >= emitted[j].gen

C11_Witness ==
    /\ Len(emitted) = 3
    /\ emitted[1].gen = emitted[2].gen
    /\ emitted[2].gen > emitted[3].gen
    /\ vns.out = PollPanic
    /\ vns.seen_hashes = CsIds

(***************************************************************************)
(* Properties of upload_blobs.                                             *)
(***************************************************************************)
UploadDone == up.pc = "done"

\* the blobs the fold has uploaded so far
UploadedItems == {i \in 1 .. Len(up.stream.items) : i < up.next /\ up.stream.items[i].ok}

\* C14: upload_blobs fails with "Blob already provided before" whenever two
\* blobs it uploaded gave the same node hash, whatever their positions in
\* the stream; when all node hashes are distinct and every upload (and the
\* stream) succeeds it returns a map with exactly one entry per blob, keyed
\* by the blob's node hash.
C14_DuplicateBlobIsError ==
    UploadDone =>
        /\ (\E i \in UploadedItems : \E j \in UploadedItems :
                i # j /\ up.stream.items[i].key = up.stream.items[j].key)
              => up.out = FoldErr(ErrBlobAlreadyProvided)
        /\ ( /\ ~up.stream.fails
             /\ \A i \in 1 .. Len(up.stream.items) : up.stream.items[i].ok
             /\ \A i \in 1 .. Len(up.stream.items) : \A j \in 1 .. Len(up.stream.items) :
                   i # j => up.stream.items[i].key # up.stream.items[j].key )
              => /\ up.out.ok
                 /\ DOMAIN up.out.map = {up.stream.items[i].key : i \in 1 .. Len(up.stream.items)}
                 /\ Cardinality(DOMAIN up.out.map) = Len(up.stream.items)
                 /\ \A i \in 1 .. Len(up.stream.items) :
                       up.out.map[up.stream.items[i].key] = up.stream.items[i].val

C14_Witness ==
    /\ UploadDone
    /\ Len(up.stream.items) = 3
    /\ up.stream.items[1].key = up.stream.items[3].key
    /\ up.stream.items[1].key # up.stream.items[2].key
    /\ up.stream.items[1].val # up.stream.items[3].val
    /\ up.out = FoldErr(ErrBlobAlreadyProvided)
    /\ blobrepo = NodeHashes

(***************************************************************************)
(* Properties of unbundle.                                                 *)
(***************************************************************************)
UnbundleDone == unb.pc = "done"

\* C15, as the spec states it: if unbundle times out at any point of its
\* processing, the stored blobs, bookmarks and phases are the same as
\* before the command started.
C15_TimeoutLeavesNoPartialState ==
    (UnbundleDone /\ unb.out = UnbErr(ErrTimeout)) => RepoState = unb.before

\* a timed-out unbundle that left blobs behind, with bookmarks and phases as before
C15_Witness ==
    /\ UnbundleDone /\ unb.out = UnbErr(ErrTimeout)
    /\ bookmarks = unb.before.bookmarks
    /\ phases = unb.before.phases
    /\ blobrepo # unb.before.blobs

\* C16: unbundle on a repository marked read-only fails without writing any
\* blob, bookmark or phase; the resolver is invoked only with the status
\* that was fetched, and a status that could not be fetched counts as
\* read-only.
C16_ReadOnlyWritesNothing ==
    (unb.pc \notin {"idle", "readonly"}) =>
        /\ unb.read_write.ro = (lock # "ReadWrite")
        /\ (lock # "ReadWrite") =>
              /\ unb.pc \in {"resolve", "done"}
              /\ unb.pc = "done" => unb.out.kind = "Err"
              /\ RepoState = unb.before
              /\ up = UploadIdle

C16_Witness ==
    /\ UnbundleDone
    /\ lock = "Error"
    /\ unb.read_write = RepoReadOnly("Failed to fetch repo lock status")
    /\ unb.out = UnbErr(ErrReadOnly)
    /\ Len(unb.push.blobs.items) >= 2
    /\ \A i \in 1 .. Len(unb.push.blobs.items) : unb.push.blobs.items[i].ok

(***************************************************************************)
(* Properties of between.                                                  *)
(***************************************************************************)
BetweenDone == cmd.op = "between" /\ cmd.pc = "done"

\* the first-parent walk from n, up to and without bottom or the null hash
RECURSIVE WalkFrom(_, _)
WalkFrom(n, bottom) ==
    IF n = bottom \/ n = NullHash \/ n \notin DOMAIN changesets THEN <<>>
    ELSE <<n>> \o WalkFrom(changesets[n], bottom)

\* the walk of a pair ends at a hash the repository does not hold
RECURSIVE WalkBreaks(_, _)
WalkBreaks(n, bottom) ==
    IF n = bottom \/ n = NullHash THEN FALSE
    ELSE IF n \notin DOMAIN changesets THEN TRUE
    ELSE WalkBreaks(changesets[n], bottom)

\* the entries of a walk at indices 1, 2, 4, 8, ... where its first entry has index 0
PowersOfTwoBelow(len) == {e \in 0 .. len : 2 ^ e < len}

EntriesAtPowersOfTwo(walk) ==
    [j \in 1 .. Cardinality(PowersOfTwoBelow(Len(walk))) |-> walk[2 ^ (j - 1) + 1]]

\* C17: for each (top, bottom) pair, between returns, in walk order, exactly
\* the entries at indices 1, 2, 4, 8, 16, ... of the first-parent walk from
\* top (index 0); the walk stops at bottom or at a null hash, neither of
\* which is returned, and the lists come one per pair in the order of the
\* pairs.
C17_BetweenPowersOfTwo ==
    (BetweenDone /\ cmd.out.kind = "Ok") =>
        /\ Len(cmd.out.val) = Len(cmd.pairs)
        /\ \A k \in 1 .. Len(cmd.pairs) :
              /\ cmd.out.val[k] =
                    EntriesAtPowersOfTwo(WalkFrom(cmd.pairs[k][1], cmd.pairs[k][2]))
              /\ \A j \in 1 .. Len(cmd.out.val[k]) :
                    cmd.out.val[k][j] \notin {cmd.pairs[k][2], NullHash}

C17_Witness ==
    /\ BetweenDone /\ cmd.out.kind = "Ok"
    /\ Len(cmd.pairs) = 2
    /\ cmd.pairs[1] = <<3, 0>> /\ cmd.out.val[1] = <<2, 1>>
    /\ cmd.pairs[2] = <<3, 1>> /\ cmd.out.val[2] = <<2>>

\* C18, as the spec states it: between([(c20, c1)]) on a 20-commit linear
\* chain c1 <- c2 <- ... <- c20 returns [c20, c19, c17, c13, c5].
C18_ChainExampleAsStated ==
    (BetweenDone /\ changesets = LinearChain /\ cmd.pairs = <<<<20, 1>>>>
        /\ cmd.out.kind = "Ok")
        => cmd.out.val = <<<<20, 19, 17, 13, 5>>>>

\* C18, amended: between([(c20, c1)]) on a 20-commit linear chain
\* c1 <- c2 <- ... <- c20 returns [c19, c18, c16, c12, c4].
C18_ChainExample ==
    (BetweenDone /\ changesets = LinearChain /\ cmd.pairs = <<<<20, 1>>>>
        /\ cmd.out.kind = "Ok")
        => cmd.out.val = <<<<19, 18, 16, 12, 4>>>>

C18_Witness ==
    /\ BetweenDone /\ changesets = LinearChain /\ cmd.pairs = <<<<20, 1>>>>
    /\ cmd.out = CmdOk(<<<<19, 18, 16, 12, 4>>>>)

(***************************************************************************)
(* Properties of lookup, known and knownnodes.                             *)
(***************************************************************************)
LookupDone == cmd.op = "lookup" /\ cmd.pc = "done"

\* C19: lookup(key) replies "1 <hex>\n" with the key's own hash when the key
\* is the hex hash of an existing changeset; otherwise, when the key names
\* an existing bookmark, "1 <hex>\n" with the bookmark's target; otherwise
\* "0 <key> not found\n"; a key that parses neither as a hash nor as a
\* bookmark name gets "0 invalid input\n".  An existing changeset hash
\* takes precedence over a bookmark of the same name.
C19_LookupReply ==
    (LookupDone /\ cmd.out.kind = "Ok") =>
        cmd.out.val =
            CASE cmd.key \in BadKeys -> <<"0", " ", "invalid input", "\n">>
              [] cmd.key \in HexKeys /\ cmd.key[2] \in DOMAIN changesets ->
                    <<"1", " ", cmd.key, "\n">>
              [] OTHER ->
                    IF cmd.key \in DOMAIN bookmarks
                    THEN <<"1", " ", <<"hex", bookmarks[cmd.key]>>, "\n">>
                    ELSE <<"0", " ", cmd.key, " not found", "\n">>

C19_Witness ==
    /\ LookupDone
    /\ cmd.key = <<"hex", 1>>
    /\ cmd.key \in DOMAIN bookmarks /\ bookmarks[cmd.key] = 2
    /\ cmd.out = CmdOk(<<"1", " ", <<"hex", 1>>, "\n">>)

KnownDone == cmd.op = "known" /\ cmd.pc = "done" /\ cmd.out.kind = "Ok"

KnownnodesDone == cmd.op = "knownnodes" /\ cmd.pc = "done" /\ cmd.out.kind = "Ok"

\* C20: known(nodes) returns a boolean list of the length and order of
\* nodes whose entry i is true iff node i exists and is Public;
\* knownnodes(nodes) one whose entry i is true iff node i exists; so known
\* is true only where knownnodes, asked for the same nodes, is true, and a
\* query with 0 nodes returns an empty list.
C20_KnownIsExistsAndPublic ==
    /\ KnownDone =>
          /\ Len(cmd.out.val) = Len(cmd.nodes)
          /\ \A i \in 1 .. Len(cmd.nodes) :
                cmd.out.val[i] = (cmd.nodes[i] \in DOMAIN changesets /\ cmd.nodes[i] \in phases)
          /\ cmd.nodes = <<>> => cmd.out.val = <<>>
    /\ KnownnodesDone =>
          /\ Len(cmd.out.val) = Len(cmd.nodes)
          /\ \A i \in 1 .. Len(cmd.nodes) :
                cmd.out.val[i] = (cmd.nodes[i] \in DOMAIN changesets)
    /\ \A a \in {"known", "knownnodes"} :
          (cmd.op = a /\ cmd.pc = "done" /\ cmd.out.kind = "Ok"
              /\ cmd.prev.op \in {"known", "knownnodes"} \ {a} /\ cmd.prev.out.kind = "Ok")
            => LET k == IF a = "known" THEN cmd.out.val ELSE cmd.prev.out.val
                   kn == IF a = "known" THEN cmd.prev.out.val ELSE cmd.out.val
               IN  /\ Len(k) = Len(kn)
                   /\ \A i \in 1 .. Len(k) : k[i] => kn[i]

C20_Witness ==
    /\ KnownDone
    /\ cmd.nodes = <<1, 2, 3>>
    /\ cmd.out.val = <<TRUE, FALSE, FALSE>>
    /\ cmd.prev = [op |-> "knownnodes", out |-> CmdOk(<<TRUE, TRUE, FALSE>>)]

(***************************************************************************)
(* Properties of hello and of the pull.                                    *)
(***************************************************************************)
HelloDone == pull.pc # "idle"

HasBundle2 ==
    \E i \in DOMAIN pull.caps :
        Len(pull.caps[i]) >= 2 /\ SubSeq(pull.caps[i], 1, 2) = <<"bundle2", "=">>

HasSubCap(text) == \E i \in DOMAIN SubCaps(pull.caps) : SubCaps(pull.caps)[i] = text

PullDone == pull.pc = "done"

StatedTimeout ==
    IF run.command = "getfiles" THEN getfiles_timeout_duration ELSE timeout_duration

\* C23: every command runs under a timeout on every path: getfiles under the
\* 90 minutes, every other command (getpackv1 and listkeys of any namespace
\* too) under the 15 minutes; so every wait of a command has that timeout
\* and no command lasts longer than it.
C23_EveryCommandUnderItsTimeout ==
    /\ run.pc = "running" => RunStage.limit = StatedTimeout
    /\ run.pc # "idle" => run.total <= StatedTimeout

\* getpackv1 answers after 30 minutes of work
C23_Witness ==
    /\ run.pc = "done"
    /\ run.command = "getpackv1"
    /\ run.total = 30 * 60
    /\ run.out = RunOk

\* C24: when the timeout fires the command ends with a timeout error of a
\* kind that no error of the command's own work has; an error the work
\* raises before the timeout is returned unchanged; no command ends with
\* both a success value and a timeout.
C24_TimeoutErrorOfItsOwnKind ==
    /\ run.pc = "done" /\ run.timed_out =>
        /\ run.out.kind = "Err"
        /\ run.out.err.type # WorkError(run.command).type
    /\ run.pc = "done" /\ ~run.timed_out /\ run.fails =>
        run.out = RunErr(WorkError(run.command))
    /\ run.pc = "done" => ~(run.out.kind = "Ok" /\ run.timed_out)

\* gettreepack times out: its error is a message error, as the error of its
\* work is
C24_Witness ==
    /\ run.pc = "done"
    /\ run.timed_out
    /\ run.command = "gettreepack"
    /\ run.out = RunErr(err_msg("timeout"))
    /\ WorkError(run.command).type = run.out.err.type

(***************************************************************************)
(* Properties of gettreepack.                                              *)
(***************************************************************************)
\* C25: in one gettreepack response no tree entry hash is emitted more than
\* once, also when several manifests that share subtrees are asked for and
\* their walks interleave; a request with a non-empty directories parameter
\* fails with an error and emits no tree entry.
C25_NoHashTwice ==
    /\ \A i, j \in DOMAIN gtp.emitted :
        gtp.emitted[i].hash = gtp.emitted[j].hash => i = j
    /\ gtp.directories # <<>> =>
        /\ gtp.pc = "done"
        /\ gtp.out.kind = "Err"
        /\ gtp.emitted = <<>>

\* two walks that share a tree entry and the root have ended, both entries
\* emitted once
C25_Witness ==
    /\ gtp.pc = "done"
    /\ gtp.out = RunOk
    /\ Len(gtp.mfnodes) = 2
    /\ gtp.mfnodes[1] = gtp.mfnodes[2]
    /\ \E i, j \in DOMAIN gtp.emitted : i # j /\ gtp.emitted[i].hash \in TreeHashes
                                            /\ gtp.emitted[j].hash \in RootHashes
    /\ Len(gtp.emitted) = 2

\* a request with directories has failed
C25_WitnessDirectories ==
    /\ gtp.pc = "done"
    /\ gtp.directories # <<>>
    /\ gtp.out.kind = "Err"

(***************************************************************************)
(* Properties of getfiles.                                                 *)
(***************************************************************************)
\* the lookups that are started and have not given their result yet
GfInFlight == {i \in DOMAIN gf.queue : gf.queue[i].st = "pending"}

\* C26: getfiles has at most 100 blob lookups in flight and emits the blobs
\* in the order of the requests, whatever the order the lookups complete
\* in; a failed lookup ends the stream with the error of that lookup.
C26_BufferedInOrder ==
    /\ Len(gf.queue) <= 100
    /\ Cardinality(GfInFlight) <= 100
    /\ Len(gf.emitted) <= Len(gf.requests)
    /\ \A i \in DOMAIN gf.emitted : gf.emitted[i] = RemotefilelogBlob(gf.requests[i])
    /\ gf.pc = "done" =>
        IF \E i \in DOMAIN gf.queue : gf.queue[i].st = "failed"
        THEN \E i \in DOMAIN gf.queue :
                /\ gf.queue[i].st = "failed"
                /\ gf.out = RunErr(LookupError(gf.queue[i].node))
        ELSE /\ gf.out = RunOk
             /\ Len(gf.emitted) = Len(gf.requests)

\* the buffer is full with requests left over; the oldest lookup is still
\* running while later ones have completed, and nothing is emitted
C26_Witness ==
    /\ gf.pc = "streaming"
    /\ Len(gf.queue) = 100
    /\ gf.params # <<>>
    /\ gf.queue[1].st = "pending"
    /\ gf.queue[3].st = "ready"
    /\ gf.emitted = <<>>

\* a lookup failed after blobs were emitted, and the stream ended with it
C26_WitnessFailed ==
    /\ gf.pc = "done"
    /\ gf.emitted # <<>>
    /\ gf.out = RunErr(LookupError(2))

(***************************************************************************)
(* Properties of getpackv1.                                                *)
(***************************************************************************)
\* the parts the k-th request is said to give
StatedParts(k) ==
    LET path == gp.requests[k].path
        filenodes == gp.requests[k].filenodes
        history == gp.histories[k]
    IN <<PartHistoryMeta(path, Len(history))>>
       \o [i \in DOMAIN history |-> PartHistory(history[i])]
       \o <<PartDataMeta(path, Len(filenodes))>>
       \o [i \in DOMAIN filenodes |->
              PartData(filenodes[i], NullHash,
                       NewFulltext(RawContent(path, filenodes[i])))]

RECURSIVE StatedPartsUpTo(_)
StatedPartsUpTo(k) == IF k = 0 THEN <<>> ELSE StatedPartsUpTo(k - 1) \o StatedParts(k)

IsPrefix(s, t) == Len(s) <= Len(t) /\ s = SubSeq(t, 1, Len(s))

GetpackDone == gp.pc = "done" /\ gp.out = RunOk

\* C27: the parts of a getpackv1 response are, for each request (path, file
\* nodes) in order: one HistoryMeta whose entry_count is the number of
\* History parts that follow, those History parts, one DataMeta whose
\* entry_count is the number of file nodes asked for, one full-text Data
\* part per file node in order with a null delta base; one End part, last.
C27_PackParts ==
    /\ IsPrefix(gp.parts, StatedPartsUpTo(Len(gp.requests)) \o <<PartEnd>>)
    /\ GetpackDone => gp.parts = StatedPartsUpTo(Len(gp.requests)) \o <<PartEnd>>
    /\ GetpackDone =>
        /\ gp.parts[Len(gp.parts)].part = "End"
        /\ Cardinality({i \in DOMAIN gp.parts : gp.parts[i].part = "End"}) = 1
        /\ \A i \in DOMAIN gp.parts :
            /\ gp.parts[i].part = "HistoryMeta" =>
                /\ \A j \in 1 .. gp.parts[i].entry_count : gp.parts[i + j].part = "History"
                /\ gp.parts[i + gp.parts[i].entry_count + 1].part = "DataMeta"
            /\ gp.parts[i].part = "DataMeta" =>
                /\ \A j \in 1 .. gp.parts[i].entry_count : gp.parts[i + j].part = "Data"
                /\ gp.parts[i + gp.parts[i].entry_count + 1].part \in {"HistoryMeta", "End"}
            /\ gp.parts[i].part = "Data" =>
                gp.parts[i].delta_base = NullHash /\ gp.parts[i].delta[1] = "fulltext"

\* a response of two requests, the second fetched first, with history and
\* with a file node asked for twice
C27_Witness ==
    /\ GetpackDone
    /\ Len(gp.requests) = 2
    /\ gp.requests[1].filenodes = <<"f1", "f1">>
    /\ Len(gp.histories[1]) = MaxHistory
    /\ gp.requests[2].filenodes = <<"f2">>
    /\ Len(gp.parts) = 8 + MaxHistory

(***************************************************************************)
(* Properties of stream_out_shallow.                                       *)
(***************************************************************************)
\* the response the changelog is said to give
StatedStreamOut ==
    << <<"0", "\n">>,
       <<"2", " ", ToString(so.chunks.index_size + so.chunks.data_size), "\n">>,
       <<"00changelog.i", "\\0", ToString(so.chunks.index_size), "\n">> >>
    \o [k \in DOMAIN so.chunks.index_blobs |-> BlobBytes(so.chunks.index_blobs[k])]
    \o << <<"00changelog.d", "\\0", ToString(so.chunks.data_size), "\n">> >>
    \o [k \in DOMAIN so.chunks.data_blobs |-> BlobBytes(so.chunks.data_blobs[k])]

StreamOutDone == so.pc = "done" /\ so.out = RunOk

\* C28: stream_out_shallow emits "0\n", then "2 <index_size + data_size>\n",
\* then the header "00changelog.i\0<index_size>\n" and the index blobs in
\* stored order, then "00changelog.d\0<data_size>\n" and the data blobs, with
\* at most 100 chunk fetches in flight per file; without a streaming clone
\* configuration both sizes are 0 and no blob is emitted.
C28_StreamOut ==
    /\ IsPrefix(so.emitted, StatedStreamOut)
    /\ StreamOutDone => so.emitted = StatedStreamOut
    /\ Len(so.queue) <= 100
    /\ so.pc # "idle" /\ ~so.config =>
        /\ so.chunks.index_size = 0
        /\ so.chunks.data_size = 0
        /\ \A i \in DOMAIN so.emitted : so.emitted[i][1] # "blob"
        /\ StreamOutDone =>
            so.emitted = << <<"0", "\n">>, <<"2", " ", "0", "\n">>,
                            <<"00changelog.i", "\\0", "0", "\n">>,
                            <<"00changelog.d", "\\0", "0", "\n">> >>

\* the queue of the index file is full with fetches left over, the oldest
\* fetch still running
C28_Witness ==
    /\ so.pc = "streaming"
    /\ Len(so.queue) = 100
    /\ so.queue[1].st = "pending"
    /\ so.queue[2].st = "ready"
    /\ Head(so.segments).futures # <<>>
    /\ Len(so.emitted) = 3

\* a complete response with blobs of both files
C28_WitnessDone ==
    /\ StreamOutDone
    /\ so.config
    /\ Len(so.chunks.index_blobs) = 3
    /\ Len(so.chunks.data_blobs) = 3
    /\ Len(so.emitted) = 10

\* a complete response without a streaming clone configuration
C28_WitnessNoConfig == StreamOutDone /\ ~so.config /\ Len(so.emitted) = 4

(***************************************************************************)
(* Properties of the generation pruning and of the termination of          *)
(* query_reachability.                                                     *)
(***************************************************************************)
ParentsOfLayer(layer) == UNION {cs_parents[n] : n \in layer}

RECURSIVE UnprunedBfs(_, _, _)
\* breadth-first search over the parents without the generation filter
UnprunedBfs(layer, seen, dst) ==
    IF dst \in layer THEN TRUE
    ELSE IF layer = {} THEN FALSE
    ELSE UnprunedBfs(ParentsOfLayer(layer) \ (seen \cup layer), seen \cup layer, dst)

\* the changesets on a path from src to dst
OnPath(src, dst) == {n \in AncestorsOrSelf(src) : dst \in AncestorsOrSelf(n)}

\* C29: on every DAG whose generation numbers are 1 for a root and 1 + the
\* largest generation of the parents otherwise, query_reachability with the
\* generation pruning gives the boolean the search without pruning gives;
\* the pruning never discards a changeset on a path from src to dst.
C29_PruningKeepsTheAnswer ==
    /\ BfsDone /\ bfs.out.kind = "Ok" =>
        bfs.out.val = UnprunedBfs({bfs.src}, {}, bfs.dst)
    /\ BfsDone /\ broken = {} => bfs.out.kind = "Ok"
    /\ bfs.pc = "loop" =>
        /\ \A p \in ParentsOfLayer(bfs.curr_layer) :
            gens[p] < bfs.dst_gen => p \notin OnPath(bfs.src, bfs.dst)
        /\ bfs.dst \in AncestorsOrSelf(bfs.src) =>
            \E n \in bfs.curr_layer : n \in OnPath(bfs.src, bfs.dst)

\* a query found dst after a layer in which the pruning discarded a parent
C29_Witness ==
    /\ BfsDone
    /\ bfs.out = BfsOk(TRUE)
    /\ bfs.src # bfs.dst
    /\ \E i \in DOMAIN bfs.log :
        /\ bfs.log[i].fn = "process_bfs_layer"
        /\ \E p \in ParentsOfLayer(bfs.log[i].nodes) : gens[p] < bfs.dst_gen

\* the layers the query has processed
LayersOfLog == {i \in DOMAIN bfs.log : bfs.log[i].fn = "process_bfs_layer"}

\* C30: on every finite parent graph whose fetches all succeed, a graph
\* with cycles too, query_reachability terminates, as no changeset is put
\* in a frontier of the search more than once.
C30_Terminates ==
    /\ [](/\ bfs.curr_layer \cap bfs.curr_seen = {}
          /\ \A i, j \in LayersOfLog :
                i # j => bfs.log[i].nodes \cap bfs.log[j].nodes = {})
    /\ (bfs.pc = "check_src") ~> (bfs.pc = "done")

\* a query from a changeset on a cycle has gone round the cycle and ended
C30_Witness ==
    /\ BfsDone
    /\ bfs.out = BfsOk(FALSE)
    /\ \E a, b \in Nodes :
        /\ a # b
        /\ a = bfs.src
        /\ b \in cs_parents[a]
        /\ a \in cs_parents[b]
        /\ {a, b} \subseteq bfs.curr_seen

(***************************************************************************)
(* The layers of the search.                                               *)
(***************************************************************************)
\* the frontiers of the query in order: those processed, then the current
Frontiers ==
    LET done == [i \in 1 .. Len(bfs.log) - 2 |-> bfs.log[i + 2].nodes]
    IN done \o <<bfs.curr_layer>>

EarlierFrontiers(k) == UNION {Frontiers[i] : i \in 1 .. k - 1}

C31_WitnessSame == BfsDone /\ bfs.src = bfs.dst /\ bfs.out = BfsOk(TRUE)

IsItem(w) == w.kind = "Item"

\* the items among the first k answers of the wrapped stream
WrappedItems(k) == SelectSeq(SubSeq(wrapped, 1, k), IsItem)

\* the emitted items are the given wrapped items, in the same order
EmittedAre(items) ==
    /\ Len(emitted) = Len(items)
    /\ \A i \in 1 .. Len(items) :
          /\ emitted[i].hash = items[i].hash
          /\ emitted[i].gen = items[i].gen

\* C32: when the wrapped stream yields a changeset id it yielded before, or
\* an item whose generation is greater than that of the item yielded before
\* it, the poll panics and the item is not emitted
C32_PanicsOnRepeatOrIncrease ==
    wrapped # <<>> =>
        LET last == wrapped[Len(wrapped)]
            earlier == WrappedItems(Len(wrapped) - 1)
        IN  /\ IsItem(last)
            /\ \/ \E i \in 1 .. Len(earlier) : earlier[i].hash = last.hash
               \/ /\ earlier # <<>>
                  /\ last.gen > earlier[Len(earlier)].gen
            => /\ vns.out = PollPanic
               /\ EmittedAre(earlier)

\* a third item repeats the hash of the first at a lower generation
C32_Witness ==
    /\ Len(wrapped) = 3
    /\ \A i \in 1 .. 3 : IsItem(wrapped[i])
    /\ wrapped[3].hash = wrapped[1].hash
    /\ wrapped[3].gen < wrapped[2].gen
    /\ vns.out = PollPanic
    /\ Len(emitted) = 2

\* a new hash arrives with a greater generation, after a poll that was not ready
C32_WitnessGeneration ==
    /\ Len(wrapped) = 3
    /\ IsItem(wrapped[1]) /\ wrapped[2] = WrappedNotReady /\ IsItem(wrapped[3])
    /\ wrapped[3].hash # wrapped[1].hash
    /\ wrapped[3].gen > wrapped[1].gen
    /\ vns.out = PollPanic
    /\ Len(emitted) = 1

\* the wrapped stream never repeated a hash nor raised the generation
WrappedWellBehaved ==
    LET items == WrappedItems(Len(wrapped))
    IN  \A i \in 1 .. Len(items) : \A j \in 1 .. Len(items) :
            i < j => /\ items[i].hash # items[j].hash
                     /\ items[i].gen >= items[j].gen

\* C33: a poll of the wrapped stream that is not ready, at its end or failed
\* is returned as it is, without a panic and without a change of
\* last_generation or seen_hashes; and while the wrapped stream keeps both
\* invariants the emitted items are exactly its items, in its order
C33_PassesThrough ==
    /\ [][LET last == wrapped'[Len(wrapped')]
          IN  last.kind \in {"NotReady", "End", "Err"} =>
                  /\ vns'.out.kind = last.kind
                  /\ vns'.last_generation = vns.last_generation
                  /\ vns'.seen_hashes = vns.seen_hashes
                  /\ emitted' = emitted]_vars
    /\ [](WrappedWellBehaved =>
            /\ vns.out # PollPanic
            /\ EmittedAre(WrappedItems(Len(wrapped))))

\* items interleaved with polls that were not ready, all emitted
C33_Witness ==
    /\ Len(wrapped) = 5
    /\ wrapped[1] = WrappedNotReady /\ wrapped[3] = WrappedNotReady
    /\ IsItem(wrapped[2]) /\ IsItem(wrapped[4])
    /\ wrapped[5] = WrappedEnd
    /\ vns.out = PollEnd
    /\ Len(emitted) = 2
    /\ vns.seen_hashes = {wrapped[2].hash, wrapped[4].hash}

\* an error of the wrapped stream after an item
C33_WitnessErr ==
    /\ Len(wrapped) = 2
    /\ IsItem(wrapped[1]) /\ wrapped[2] = WrappedErr
    /\ vns.out = PollErr
    /\ vns.last_generation = SomeGeneration(wrapped[1].gen)

(***************************************************************************)
(* Properties of the hash validation of gettreepack.                       *)
(***************************************************************************)
GtpEmittedHashes == {gtp.emitted[i].hash : i \in DOMAIN gtp.emitted}

\* an entry the filter let through, that is not at the root path and whose
\* bytes do not hash to its node
GtpMismatch(h) ==
    /\ h \in gtp.used_hashes
    /\ h \in TreeHashes
    /\ nodeid(get_raw_content(h, gtp.damaged)) # h

\* C34: with hash validation selected for a gettreepack request, every
\* entry let through that is not at the root path and whose H(content, p1,
\* p2) differs from its node ends the response with DataCorruption of its
\* path, expected and actual hash, and is not emitted; the root entry is
\* emitted unchecked; without validation nothing is checked
C34_HashValidation ==
    /\ gtp.validate_hash =>
        /\ \A h \in TreeHashes : GtpMismatch(h) =>
              /\ gtp.pc = "done"
              /\ gtp.out.kind = "Err"
              /\ gtp.out.err.type = "DataCorruption"
              /\ gtp.out.err.actual = h
              /\ gtp.out.err.expected = nodeid(get_raw_content(h, gtp.damaged))
              /\ gtp.out.err.path \in TreeDirs
              /\ h \notin GtpEmittedHashes
        /\ \A h \in RootHashes : h \in gtp.used_hashes => h \in GtpEmittedHashes
    /\ ~gtp.validate_hash =>
        /\ gtp.used_hashes = GtpEmittedHashes
        /\ gtp.directories = <<>> => gtp.out = RunOk
    /\ gtp.out.kind = "Err" /\ gtp.directories = <<>> =>
        /\ gtp.out.err.type = "DataCorruption"
        /\ GtpMismatch(gtp.out.err.actual)

\* a validated request failed on a damaged tree after a sound one was emitted
C34_Witness ==
    /\ gtp.validate_hash
    /\ gtp.pc = "done"
    /\ gtp.out = RunErr(DataCorruption("a", "h(damaged)", "t1"))
    /\ GtpEmittedHashes = {"t2"}

\* a validated request emitted a damaged root entry and ended well
C34_WitnessRoot ==
    /\ gtp.validate_hash
    /\ gtp.pc = "done"
    /\ gtp.out = RunOk
    /\ "r1" \in gtp.damaged
    /\ "r1" \in GtpEmittedHashes

\* a request without validation emitted a damaged tree and ended well
C34_WitnessUnchecked ==
    /\ ~gtp.validate_hash
    /\ gtp.pc = "done"
    /\ gtp.out = RunOk
    /\ "t1" \in gtp.damaged
    /\ "t1" \in GtpEmittedHashes

(***************************************************************************)
(* Properties of the reading of the getpackv1 parameters.                  *)
(***************************************************************************)
\* C35: getpackv1 emits no part of its response before the stream of its
\* parameters has been read to the end, and an error of that stream ends
\* the command with an error and no part emitted
C35_ReadsBeforeResponding ==
    /\ gp.parts # <<>> =>
        /\ gp.params = <<>>
        /\ ~gp.params_err
        /\ Len(gp.requests) = Len(gp.histories)
    /\ gp.pc = "reading" => gp.parts = <<>>
    /\ gp.params_err /\ gp.pc \in {"streaming", "done"} =>
        /\ gp.pc = "done"
        /\ gp.out.kind = "Err"
        /\ gp.parts = <<>>

\* the first part of a response to two parameters is out
C35_Witness ==
    /\ gp.pc = "streaming"
    /\ Len(gp.requests) = 2
    /\ Len(gp.parts) > 0
    /\ Len(gp.queue) = 1

\* the parameter stream failed after two parameters
C35_WitnessErr ==
    /\ gp.pc = "done"
    /\ gp.params_err
    /\ Len(gp.requests) = 2
    /\ gp.out = RunErr(ParamsError)
    /\ gp.parts = <<>>

(***************************************************************************)
(* Properties of the batch operations of the cachelib handler.             *)
(***************************************************************************)
MockFilled == mock.pc \in {"filled", "getting", "done"}

MockLeftKeys == {mock.left_to_fetch[i][1] : i \in DOMAIN mock.left_to_fetch}

MockQueried == {mock.query[i] : i \in DOMAIN mock.query}

\* C36: after fill_multiple_cachelib(initial) on an empty mock the cache
\* holds initial exactly; get_multiple_from_cachelib(query) then returns
\* fetched and left with every queried key in exactly one of them, fetched
\* giving the filled value of each queried key of initial, left holding
\* the queried keys that are not in initial, each with its own cache key
C36_MultipleRoundtrip ==
    /\ MockFilled => mock.cache = mock.initial
    /\ mock.pc = "done" =>
        /\ DOMAIN mock.fetched \cup MockLeftKeys = MockQueried
        /\ DOMAIN mock.fetched \cap MockLeftKeys = {}
        /\ Len(mock.left_to_fetch) = Cardinality(MockLeftKeys)
        /\ DOMAIN mock.fetched = MockQueried \cap DOMAIN mock.initial
        /\ \A key \in DOMAIN mock.fetched : mock.fetched[key] = mock.initial[key]
        /\ MockLeftKeys = MockQueried \ DOMAIN mock.initial
        /\ \A i \in DOMAIN mock.left_to_fetch :
              mock.left_to_fetch[i][2] = CachelibKey(mock.left_to_fetch[i][1])
        /\ mock.get_count = Len(mock.query)

\* two keys were filled, three queried: two fetched with different values
\* and one left
C36_Witness ==
    /\ mock.pc = "done"
    /\ Cardinality(DOMAIN mock.initial) = 2
    /\ Len(mock.query) = 3
    /\ Cardinality(DOMAIN mock.fetched) = 2
    /\ \E a, b \in DOMAIN mock.fetched : mock.fetched[a] # mock.fetched[b]
    /\ Len(mock.left_to_fetch) = 1

(***************************************************************************)
(* Properties of the order of the uploads of upload_blobs.                 *)
(***************************************************************************)
\* the blob at place i of the stream repeats the node hash of an earlier one
UploadDuplicate(i) ==
    \E j \in 1 .. i - 1 : up.stream.items[j].key = up.stream.items[i].key

\* the blob at place i was uploaded: upload was called on it and succeeded
UploadedAt(i) ==
    /\ \E n \in DOMAIN up.called : up.called[n] = i
    /\ up.stream.items[i].ok

\* C37: upload_blobs uploads the blobs one at a time in the order of the
\* stream and stops at the first failure: upload is called on no blob that
\* follows a blob whose upload failed or a blob rejected as a duplicate, and
\* a blob whose node hash was provided before in the call is rejected
\* without being uploaded a second time
C37_StopsAtFirstFailure ==
    /\ up.called = [n \in 1 .. Len(up.called) |-> n]
    /\ \A n \in DOMAIN up.called : \A j \in 1 .. n - 1 :
          /\ up.stream.items[j].ok
          /\ ~UploadDuplicate(j)
    /\ \A i \in DOMAIN up.stream.items :
          UploadDuplicate(i) => ~UploadedAt(i)

\* the part of it that holds: in order, and nothing after the first failure
\* or duplicate; a duplicate is rejected after its upload
C37_StopsAfterUpload ==
    /\ up.called = [n \in 1 .. Len(up.called) |-> n]
    /\ \A n \in DOMAIN up.called : \A j \in 1 .. n - 1 :
          /\ up.stream.items[j].ok
          /\ ~UploadDuplicate(j)
    /\ \A i \in DOMAIN up.stream.items :
          UploadDuplicate(i) /\ UploadedAt(i) =>
              /\ up.pc = "done"
              /\ up.out = FoldErr(ErrBlobAlreadyProvided)
              /\ Len(up.called) = i

\* the second blob repeats the node hash of the first: it was uploaded, then
\* rejected, and the third was left alone
C37_Witness ==
    /\ up.pc = "done"
    /\ Len(up.stream.items) = 3
    /\ up.stream.items[1].key = up.stream.items[2].key
    /\ up.stream.items[2].ok
    /\ up.called = <<1, 2>>
    /\ up.out = FoldErr(ErrBlobAlreadyProvided)
    /\ up.stream.items[2].key \in blobrepo

(***************************************************************************)
(* Properties of the entry materialize_future returns.                     *)
(***************************************************************************)
\* C38: the entry returned by materialize_future carries the name and the
\* type of the HgEntry passed to that call, whether it was computed or
\* served from the cache, also when two entries of a repository have the
\* same hash and different names
C38_CarriesNameOfItsEntry ==
    \A c \in Callers :
        calls[c].pc = "done" /\ calls[c].out.kind = "Ok" =>
            /\ calls[c].out.val.name = calls[c].entry.name.text
            /\ calls[c].out.val.ttype = content[calls[c].entry.hash].kind

\* a call for the entry named b was served from the cache with the entry
\* computed for the entry named a of the same hash
C38_Witness ==
    \E c \in Callers :
        /\ calls[c].pc = "done"
        /\ via[c] = "hit"
        /\ calls[c].entry.name = Utf8Name("b")
        /\ calls[c].out.kind = "Ok"
        /\ calls[c].out.val.name = "a"
        /\ calls[c].out.val.hash = calls[c].entry.hash

\* without a cache the entry returned is the one computed for the call
C38_ComputedCarriesName ==
    \A c \in Callers :
        calls[c].pc = "done" /\ calls[c].out.kind = "Ok" /\ via[c] \in {"direct", "fill"} =>
            calls[c].out.val.name = calls[c].entry.name.text

(***************************************************************************)
(* Properties of is_present and of the chunk count of the data store.      *)
(***************************************************************************)
\* DataSqlStore::get(key) run to its end over the tables as they are
DataGetNow(k) ==
    LET shard_id == DataShard(k)
        rows == SelectData(Db(ReadConnection(shard_id - 1)), repo_id, k)
    IN  IF rows # {} THEN DecodeRow(rows)
        ELSE DecodeRow(SelectData(Db(ReadMasterConnection(shard_id - 1)), repo_id, k))

\* DataSqlStore::is_present(key) run to its end over the tables as they are
IsPresentNow(k) ==
    LET shard_id == DataShard(k)
        rows == SelectIsDataPresent(Db(ReadConnection(shard_id - 1)), repo_id, k)
    IN  IF rows # {} THEN TRUE
        ELSE SelectIsDataPresent(Db(ReadMasterConnection(shard_id - 1)), repo_id, k) # {}

\* C39: for every key and every state of replica and master, is_present
\* returns true exactly when get returns a value and false exactly when get
\* returns None; and both ask the master only after the replica had no row
C39_PresentIffGetReturnsValue ==
    /\ \A k \in Keys :
          /\ IsPresentNow(k) <=> DataGetNow(k).kind \in {"Data", "InChunk"}
          /\ ~IsPresentNow(k) <=> DataGetNow(k) = ResNone
    /\ rd.op \in {"data_get", "is_present"} =>
          \A i \in DOMAIN rd.log :
              /\ i = 1 => rd.log[i].conn.tier = "replica"
              /\ i = 2 => rd.log[i].conn.tier = "master" /\ ~rd.log[1].found
              /\ i <= 2

\* the part of it that holds: is_present is false exactly when get returns
\* None, and the master is asked only after the replica had no row
C39_AbsentIffGetReturnsNone ==
    /\ \A k \in Keys : ~IsPresentNow(k) <=> DataGetNow(k) = ResNone
    /\ rd.op \in {"data_get", "is_present"} =>
          \A i \in DOMAIN rd.log :
              /\ i = 1 => rd.log[i].conn.tier = "replica"
              /\ i = 2 => rd.log[i].conn.tier = "master" /\ ~rd.log[1].found
              /\ i <= 2

\* is_present has answered true for a key whose row, written by a put of
\* InChunk(2^31), get cannot return
C39_Witness ==
    /\ rd.op = "is_present" /\ rd.pc = "done" /\ rd.out = ResBool(TRUE)
    /\ firstPut[rd.key].entry = EntryInChunk(USize(1, 0))
    /\ RowOfEntry(rd.key, firstPut[rd.key].entry) \in master[DataShard(rd.key) - 1].data
    /\ DataGetNow(rd.key) = ResErr(ErrInvalidCount)

\* the first put of the key was of an InChunk entry and wrote the row of
\* the key, and a get issued after it has returned
GetAfterInChunkPut ==
    /\ rd.op = "data_get" /\ rd.pc = "done" /\ rd.after
    /\ firstPut[rd.key].entry.kind = "InChunk"
    /\ RowOfEntry(rd.key, firstPut[rd.key].entry) \in master[DataShard(rd.key) - 1].data

\* C40: a get that follows a put of InChunk(n), n not zero, into a store
\* that held nothing for the key returns InChunk(n) with the same n; and
\* get never returns InChunk with a count of zero or less
C40_ChunkCountRoundTrip ==
    /\ GetAfterInChunkPut => rd.out = ResInChunk(firstPut[rd.key].entry.n)
    /\ rd.op = "data_get" /\ rd.pc = "done" /\ rd.out.kind = "InChunk" =>
          rd.out.n.hi = 0 /\ rd.out.n.lo > 0

\* the part of it that holds: counts up to 2^31 - 1 come back, and no
\* count of zero or less is returned
C40_SmallCountRoundTrip ==
    /\ GetAfterInChunkPut /\ firstPut[rd.key].entry.n.hi = 0 =>
          rd.out = ResInChunk(firstPut[rd.key].entry.n)
    /\ rd.op = "data_get" /\ rd.pc = "done" /\ rd.out.kind = "InChunk" =>
          rd.out.n.hi = 0 /\ rd.out.n.lo > 0

\* InChunk(2^32 + 1) was put and InChunk(1) was returned
C40_Witness ==
    /\ GetAfterInChunkPut
    /\ firstPut[rd.key].entry = EntryInChunk(USize(2, 1))
    /\ rd.out = ResInChunk(USize(0, 1))

\* InChunk(2^31) was put and the get failed on the count
C40_WitnessNegative ==
    /\ GetAfterInChunkPut
    /\ firstPut[rd.key].entry = EntryInChunk(USize(1, 0))
    /\ rd.out = ResErr(ErrInvalidCount)

====
